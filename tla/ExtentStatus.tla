--------------------------- MODULE ExtentStatus ---------------------------
(* The extent status tree of one inode of a file system with clusters      *)
(* (bigalloc): what it caches of the extent tree, the delayed blocks it    *)
(* alone remembers, the pending reservations of clusters shared by delayed *)
(* and mapped blocks, and the counter of reserved clusters these are worth.*)
(*                                                                         *)
(* Neighbouring entries that can be merged always are, so the tree is a    *)
(* function from blocks to a status and its entries are the runs of that   *)
(* function. Every action runs under i_data_sem, except that a delayed     *)
(* write looks up its block first and takes the semaphore afterwards.      *)
EXTENDS Integers, FiniteSets, SequencesExt

CONSTANTS
    EsLast,         \* the blocks of the file are 0 .. EsLast
    ClusterRatio,   \* s_cluster_ratio
    EsBreaks,       \* blocks that the next block does not follow on disk
    EsClusters,     \* clusters of the file system
    EsNone          \* no delayed write is under way

VARIABLES
    emap,       \* the extent tree: block -> "none", "unwritten" or "written"
    es,         \* i_es_tree: block -> a status, or "absent"
    pend,       \* i_pending_tree: clusters
    resv,       \* i_reserved_data_blocks (clusters)
    freeclu,    \* s_freeclusters_counter
    others,     \* clusters of other files, settled at the start
    da          \* a delayed write between its lookup and its insertion

esVars == <<emap, es, pend, resv, freeclu, others, da>>

EsBlocks == 0 .. EsLast
B2C(b) == b \div ClusterRatio
COFF(b) == b % ClusterRatio
CMASK(b) == ClusterRatio * B2C(b)
CFILL(b) == CMASK(b) + ClusterRatio - 1
EsClu == {B2C(b) : b \in EsBlocks}
InClu(c) == {b \in EsBlocks : B2C(b) = c}

LoOf(S) == CHOOSE x \in S : \A y \in S : x <= y
HiOf(S) == CHOOSE x \in S : \A y \in S : y <= x
Lesser(a, b) == IF a < b THEN a ELSE b

\* ext4_es_can_be_merged of two neighbouring blocks
Merged(f, b) ==
    /\ b + 1 \in EsBlocks /\ f[b] = f[b + 1] /\ f[b] \notin {"absent", "none"}
    /\ f[b] \in {"written", "unwritten"} => b \notin EsBreaks

\* the entry (or extent) that holds a block, and all of them in order
RunEnd(f, b) == HiOf({a \in b .. EsLast : \A i \in b .. a - 1 : Merged(f, i)})
RunOf(f, b) ==
    [lo |-> LoOf({a \in 0 .. b : \A i \in a .. b - 1 : Merged(f, i)}), hi |-> RunEnd(f, b)]
Runs(f) ==
    SelectSeq([i \in 1 .. EsLast + 1 |-> [lo |-> i - 1, hi |-> RunEnd(f, i - 1)]],
              LAMBDA r : f[r.lo] \notin {"absent", "none"} /\ (r.lo > 0 => ~Merged(f, r.lo - 1)))

Delayed(f, S) == \E b \in S \cap EsBlocks : f[b] = "delayed"
MappedIn(f, S) == \E b \in S \cap EsBlocks : f[b] \in {"written", "unwritten"}

----------------------------------------------------------------------------
(* Counting the reservations a removal gives back.                         *)

RsvdStart == [n |-> 0, found |-> FALSE, first |-> 0, last |-> 0, partial |-> FALSE, lclu |-> 0]

count_rsvd_no_flush(rc, x) ==
    LET whole == (x.hi - x.lo + 1) \div ClusterRatio
    IN  [n |-> rc.n + whole, found |-> TRUE, first |-> IF rc.found THEN rc.first ELSE x.lo,
         last |-> x.hi, partial |-> rc.partial \/ whole = 0, lclu |-> B2C(x.hi)]

\* one removed stretch of delayed blocks lo .. hi
count_rsvd(rc, x) ==
    LET flush == rc.partial /\ rc.lclu # B2C(x.lo)
        edge == COFF(x.lo) # 0 /\ x.hi >= CFILL(x.lo)
        i1 == IF edge THEN CFILL(x.lo) + 1 ELSE x.lo
        nclu == IF i1 + ClusterRatio - 1 <= x.hi THEN (x.hi - i1 + 1) \div ClusterRatio ELSE 0
        i2 == i1 + nclu * ClusterRatio
        part == rc.partial /\ ~flush /\ ~edge
    IN  [n |-> rc.n + (IF flush THEN 1 ELSE 0) + (IF edge THEN 1 ELSE 0) + nclu,
         found |-> TRUE,
         first |-> IF rc.found THEN rc.first ELSE x.lo,
         last |-> x.hi,
         partial |-> part \/ i2 <= x.hi,
         lclu |-> IF ~part /\ i2 <= x.hi THEN B2C(i2) ELSE rc.lclu]

Clip(r, lo, hi) == [lo |-> IF r.lo < lo THEN lo ELSE r.lo, hi |-> Lesser(r.hi, hi)]
Removed(f, lo, hi) ==
    LET all == Runs(f)
    IN  SelectSeq([i \in DOMAIN all |-> Clip(all[i], lo, hi)],
                  LAMBDA x : x.lo <= x.hi /\ f[x.lo] = "delayed")

\* [used, pend]: clusters whose reservation goes, and the pending ones that stay;
\* rc: what was counted
rsvd_of(rc, f, p, lo, hi) ==
    LET n == rc.n + (IF rc.partial THEN 1 ELSE 0)
        c1 == B2C(rc.first)
        c2 == B2C(rc.last)
        left == Delayed(f, CMASK(rc.first) .. lo - 1)
        right == (~left \/ c1 # c2) /\ Delayed(f, hi + 1 .. CFILL(rc.last))
        kept == (IF left THEN 1 ELSE 0) + (IF right THEN 1 ELSE 0)
        whole == IF c1 = c2 THEN IF left \/ right THEN {} ELSE {c1}
                 ELSE (IF left THEN c1 + 1 ELSE c1) .. (IF right THEN c2 - 1 ELSE c2)
    IN  IF ~Delayed(f, lo .. hi) THEN [used |-> 0, pend |-> p]       \* ndelayed = 0
        ELSE [used |-> n - kept - Cardinality(whole \cap p), pend |-> p \ whole]

get_rsvd(f, p, lo, hi) ==
    rsvd_of(FoldLeft(count_rsvd, RsvdStart, Removed(f, lo, hi)), f, p, lo, hi)

----------------------------------------------------------------------------
(* The tree itself. drop: the entry to be added could not be allocated.    *)
(* An entry that has to be kept (a delayed one) is then added on a second  *)
(* try with memory that cannot be refused; any other is left out.          *)

EsWithout(f, lo, hi) == [b \in EsBlocks |-> IF b \in lo .. hi THEN "absent" ELSE f[b]]

es_remove(f, lo, hi, drop) ==
    LET r == RunOf(f, lo)
        split == f[lo] # "absent" /\ r.lo < lo /\ r.hi > hi
    IN  IF split /\ drop /\ f[lo] # "delayed" THEN EsWithout(f, lo, r.hi)
        ELSE EsWithout(f, lo, hi)

es_insert(f, lo, hi, st, drop) ==
    LET g == [b \in EsBlocks |-> IF b \in lo .. hi THEN st ELSE f[b]]
        alone == ~(lo > 0 /\ Merged(g, lo - 1)) /\ ~Merged(g, hi)
    IN  IF alone /\ drop /\ st # "delayed" THEN f ELSE g

\* the clusters at the two ends that also hold delayed blocks, and those that do not
revise_pending(f, p, lo, hi) ==
    LET fdel == Delayed(f, CMASK(lo) .. lo - 1)
        ldel == Delayed(f, hi + 1 .. CFILL(hi))
        yes == (IF fdel THEN {B2C(lo)} ELSE {}) \cup
               (IF ldel /\ ~(fdel /\ B2C(lo) = B2C(hi)) THEN {B2C(hi)} ELSE {})
        no == {B2C(lo), B2C(hi)} \ yes
    IN  [new |-> Cardinality(yes \ p), pend |-> (p \ no) \cup yes]

\* ext4_es_insert_extent: [es, pend, used]
Revised(g, h, lo, hi, st) ==
    LET v == revise_pending(h, g.pend, lo, hi)
    IN  IF st = "hole" THEN [es |-> h, pend |-> g.pend, used |-> g.used]
        ELSE [es |-> h, pend |-> v.pend, used |-> g.used + v.new]

es_insert_extent(f, p, lo, hi, st, d) ==
    Revised(get_rsvd(f, p, lo, hi), es_insert(es_remove(f, lo, hi, d), lo, hi, st, d), lo, hi, st)

\* The same when __insert_pending finds no memory (k: which of the two ends):
\* the clusters counted so far are released, and the next try counts again. It
\* counts nothing twice or never, unless the count of the first try is left
\* standing (no entry in the range) or one end was already entered.
es_insert_extent_retry(f, p, lo, hi, st, d, k) ==
    LET g == get_rsvd(f, p, lo, hi)
        h == es_insert(es_remove(f, lo, hi, d), lo, hi, st, d)
        p1 == IF k = 2 THEN g.pend \cup {B2C(lo)} ELSE g.pend
        again == IF \A b \in lo .. hi : h[b] = "absent" THEN g.used ELSE 0
        v == revise_pending(h, p1, lo, hi)
    IN  [es |-> h, pend |-> v.pend, used |-> g.used + again + v.new]

\* ext4_es_cache_extent: only where nothing is cached yet
es_cache_extent(f, lo, hi, st, d) ==
    IF \A b \in lo .. hi : f[b] = "absent" THEN es_insert(f, lo, hi, st, d) ELSE f

\* ext4_da_update_reserve_space and ext4_da_release_space
Released(n) == resv - Lesser(n, resv)

\* an insertion takes effect
Inserted(v) == es' = v.es /\ pend' = v.pend /\ resv' = Released(v.used)

\* ext4_claim_free_clusters: delayed blocks have claimed theirs already
Available(reserved) == IF reserved THEN freeclu ELSE freeclu - resv

----------------------------------------------------------------------------
(* What the extent tree answers.                                           *)

IsMapped(b) == emap[b] # "none"
NextMapped(b) == LoOf({x \in b .. EsLast : IsMapped(x)} \cup {CFILL(EsLast) + 1})
PrevMapped(b) == HiOf({x \in 0 .. b : IsMapped(x)} \cup {-1})

\* ext4_ext_determine_insert_hole: the hole around b, short of delayed blocks
HoleAround(f, b) ==
    [lo |-> HiOf({x \in 0 .. b : f[x] = "delayed"} \cup {PrevMapped(b)}) + 1,
     hi |-> LoOf({x \in b .. EsLast : f[x] = "delayed"} \cup {NextMapped(b)}) - 1]

\* ext4_map_query_blocks: what a lookup that misses the cache adds to it
Query(f, p, b, n, d) ==
    IF IsMapped(b)
    THEN LET r == RunOf(emap, b)
         IN  es_insert_extent(f, p, b, Lesser(r.hi, b + n - 1), emap[b], d)
    ELSE IF f[b] = "delayed" THEN [es |-> f, pend |-> p, used |-> 0]
    ELSE LET h == HoleAround(f, b)
         IN  es_insert_extent(f, p, h.lo, h.hi, "hole", d)

\* the length of the answer
Answer(f, b, n) ==
    IF f[b] # "absent" THEN Lesser(n, RunOf(f, b).hi - b + 1)
    ELSE IF IsMapped(b) THEN Lesser(n, RunOf(emap, b).hi - b + 1)
    ELSE Lesser(n, HoleAround(f, b).hi - b + 1)

EsInit ==
    /\ emap = [b \in EsBlocks |-> "none"]
    /\ es = [b \in EsBlocks |-> "absent"]
    /\ pend = {} /\ resv = 0 /\ da = EsNone
    /\ others \in 0 .. EsClusters - 1 /\ freeclu = EsClusters - others

\* ext4_map_blocks without EXT4_GET_BLOCKS_CREATE
MapQuery(b, n, d) ==
    /\ es[b] = "absent"
    /\ Inserted(Query(es, pend, b, n, d))
    /\ UNCHANGED <<emap, freeclu, others, da>>

\* ext4_cache_extents: a leaf of the extent tree is read
CacheLeaf(d) ==
    LET ext == Runs(emap)
        one(f, i) ==
            LET prev == IF i = 1 THEN ext[1].lo ELSE ext[i - 1].hi + 1
                g == IF prev # ext[i].lo
                     THEN es_cache_extent(f, prev, ext[i].lo - 1, "hole", d) ELSE f
            IN  es_cache_extent(g, ext[i].lo, ext[i].hi, emap[ext[i].lo], d)
    IN  /\ ext # << >>
        /\ es' = FoldLeft(one, es, [i \in 1 .. Len(ext) |-> i])
        /\ UNCHANGED <<emap, pend, resv, freeclu, others, da>>

\* es_do_reclaim_extents and ext4_clear_inode_es: entries go, delayed ones stay
Reclaim(r) ==
    /\ es[r.lo] \notin {"absent", "delayed"} /\ r = RunOf(es, r.lo)
    /\ es' = EsWithout(es, r.lo, r.hi)
    /\ UNCHANGED <<emap, pend, resv, freeclu, others, da>>

----------------------------------------------------------------------------
(* A delayed write: ext4_da_map_blocks.                                    *)

\* the first lookup; only a hole goes on
DaLookup(b, n, d) ==
    /\ da = EsNone
    /\ ~IsMapped(b) /\ es[b] \in {"absent", "hole"}
    /\ IF es[b] = "absent" THEN Inserted(Query(es, pend, b, n, d))
       ELSE UNCHANGED <<es, pend, resv>>
    /\ da' = [b |-> b, n |-> Answer(es, b, n)]
    /\ UNCHANGED <<emap, freeclu, others>>

\* ext4_clu_alloc_state: delayed already, allocated already, or neither
clu_alloc_state(f, b) ==
    IF Delayed(f, InClu(B2C(b))) THEN 1
    ELSE IF MappedIn(f, InClu(B2C(b))) \/ MappedIn(emap, InClu(B2C(b))) THEN 2
    ELSE 0

\* ext4_insert_delayed_blocks, of the cache f
insert_delayed(f, p, lo, hi) ==
    LET s1 == clu_alloc_state(f, lo)
        s2 == clu_alloc_state(f, hi)
        two == B2C(lo) # B2C(hi)
        need == B2C(hi) - B2C(lo) + 1 - (IF s1 > 0 THEN 1 ELSE 0)
                                      - (IF two /\ s2 > 0 THEN 1 ELSE 0)
    IN  \/ /\ need <= Available(FALSE)
           /\ es' = es_insert(EsWithout(f, lo, hi), lo, hi, "delayed", FALSE)
           /\ pend' = p \cup (IF s1 = 2 THEN {B2C(lo)} ELSE {})
                        \cup (IF two /\ s2 = 2 THEN {B2C(hi)} ELSE {})
           /\ resv' = resv + need
        \/ /\ need > Available(FALSE)                  \* -ENOSPC
           /\ es' = f /\ pend' = p /\ UNCHANGED resv

DaInsert_no_recheck(d) ==
    /\ da # EsNone
    /\ insert_delayed(es, pend, da.b, da.b + da.n - 1)
    /\ da' = EsNone
    /\ UNCHANGED <<emap, freeclu, others>>

\* the second lookup, under i_data_sem, and the insertion
DaInsert(d) ==
    /\ da # EsNone
    /\ LET b == da.b
       IN  \/ es[b] \notin {"absent", "hole"} /\ UNCHANGED <<es, pend, resv>>
           \/ es[b] = "hole" /\ insert_delayed(es, pend, b, b + Answer(es, b, da.n) - 1)
           \/ /\ es[b] = "absent" /\ IsMapped(b)
              /\ Inserted(Query(es, pend, b, da.n, d))
           \/ /\ es[b] = "absent" /\ ~IsMapped(b)
              /\ \E q \in {Query(es, pend, b, da.n, d)} :
                    insert_delayed(q.es, q.pend, b, b + Answer(es, b, da.n) - 1)
    /\ da' = EsNone
    /\ UNCHANGED <<emap, freeclu, others>>

----------------------------------------------------------------------------
(* Allocation: ext4_map_create_blocks over ext4_ext_map_blocks.            *)

\* where an allocation from b may end, and the clusters it takes: a block of
\* an allocated cluster uses that cluster, other blocks stop short of it
implied(b) == \E x \in InClu(B2C(b)) : IsMapped(x)
AllocEnd(b, n) ==
    IF implied(b)
    THEN LoOf({b + n - 1, CFILL(b), NextMapped(b) - 1})
    ELSE LoOf({b + n - 1, CMASK(NextMapped(b)) - 1, EsLast})
NewClusters(b, hi) == IF implied(b) THEN 0 ELSE B2C(hi) - B2C(b) + 1

\* reserved: the lookup had found delayed blocks (DELALLOC_RESERVE), which
\* writeback keeps locked; otherwise what it had found may be out of date
AllocBlocks(b, n, st, reserved, d) ==
    /\ ~IsMapped(b)
    /\ reserved => \A x \in b .. b + n - 1 : es[x] = "delayed"
    /\ \E hi \in b .. AllocEnd(b, n) :
          LET k == NewClusters(b, hi)
          IN  /\ hi < AllocEnd(b, n) => ~implied(b) /\ hi = CFILL(hi)
              /\ k <= Available(reserved)
              /\ emap' = [x \in EsBlocks |-> IF x \in b .. hi THEN st ELSE emap[x]]
              /\ Inserted(es_insert_extent(es, pend, b, hi, st, d))
              /\ freeclu' = freeclu - k
    /\ UNCHANGED <<others, da>>

\* The same with a pending reservation that takes a second try.
AllocPendingRetried(b, n, st, d, k) ==
    LET hi == AllocEnd(b, n)
        both == Delayed(es, CMASK(b) .. b - 1) /\ Delayed(es, hi + 1 .. CFILL(hi)) /\ B2C(b) # B2C(hi)
    IN  /\ ~IsMapped(b) /\ \A x \in b .. b + n - 1 : es[x] = "delayed"
        /\ IF k = 2 THEN both ELSE Delayed(es, CMASK(b) .. b - 1) \/ Delayed(es, hi + 1 .. CFILL(hi))
        /\ NewClusters(b, hi) <= freeclu
        /\ emap' = [x \in EsBlocks |-> IF x \in b .. hi THEN st ELSE emap[x]]
        /\ Inserted(es_insert_extent_retry(es, pend, b, hi, st, d, k))
        /\ freeclu' = freeclu - NewClusters(b, hi)
        /\ UNCHANGED <<others, da>>

\* ext4_convert_unwritten_extents when data has reached the disk, and
\* convert_initialized_extent of a range that is zeroed
ConvertExtent(b, n, from, to, d) ==
    /\ emap[b] = from
    /\ LET hi == Lesser(b + n - 1, RunOf(emap, b).hi)
       IN  /\ emap' = [x \in EsBlocks |-> IF x \in b .. hi THEN to ELSE emap[x]]
           /\ Inserted(es_insert_extent(es, pend, b, hi, to, d))
    /\ UNCHANGED <<freeclu, others, da>>

----------------------------------------------------------------------------
(* Removal: ext4_ext_remove_space walks the extents from right to left and *)
(* frees whole clusters; a cluster that the next extent to the left may    *)
(* still use waits in "partial".                                           *)

NoPartial == [state |-> "initial", clu |-> 0]

\* a cluster is freed; a pending one becomes a reservation again
FreeClu(s, c) ==
    [s EXCEPT !.freed = @ + 1,
              !.resv = IF c \in s.pend THEN @ + 1 ELSE @,
              !.pend = @ \ {c}]

\* ext4_remove_blocks of from .. to: a partial cluster elsewhere is settled, the
\* cluster the end lies in is freed, then the whole clusters, and the one the
\* start lies in becomes partial if the extent starts there
LeavePartial(s, to) ==
    IF s.p.state = "initial" \/ s.p.clu = B2C(to) THEN s
    ELSE [(IF s.p.state = "tofree" THEN FreeClu(s, s.p.clu) ELSE s) EXCEPT !.p = NoPartial]

FreeTail(s, from, to) ==
    IF COFF(to) # ClusterRatio - 1 /\ CMASK(to) >= from /\ s.p.state # "nofree"
    THEN [FreeClu(s, B2C(to)) EXCEPT !.p = NoPartial] ELSE s

FreeWhole(s, from, to) ==
    LET full == {c \in B2C(from) .. B2C(to) : ClusterRatio * c >= from /\ CFILL(ClusterRatio * c) <= to}
    IN  [s EXCEPT !.freed = @ + Cardinality(full)]

EnterPartial(s, x, from) ==
    LET here == s.p.clu = B2C(from) /\ s.p.state # "initial"
    IN  IF COFF(from) = 0 \/ from # x.lo THEN [s EXCEPT !.p = NoPartial]
        ELSE IF here THEN s
        ELSE [s EXCEPT !.p = [state |-> "tofree", clu |-> B2C(from)]]

remove_blocks(s, x, from) ==
    EnterPartial(FreeWhole(FreeTail(LeavePartial(s, x.hi), from, x.hi), from, x.hi), x, from)

\* ext4_ext_rm_leaf, of the extents of one leaf, right to left; an extent that
\* stays settles the partial cluster
SettlePartial(s, left) ==
    IF s.p.state # "tofree" \/ left = << >> THEN s
    ELSE [(IF s.p.clu # B2C(left[Len(left)].hi) THEN FreeClu(s, s.p.clu) ELSE s)
             EXCEPT !.p = NoPartial]

rm_leaf(s, leaf, lo) ==
    LET one(t, x) == IF x.hi < lo THEN t ELSE remove_blocks(t, x, IF x.lo < lo THEN lo ELSE x.lo)
    IN  SettlePartial(FoldLeft(one, s, Reverse(leaf)), SelectSeq(leaf, LAMBDA x : x.hi < lo))

\* ext4_ext_remove_space; the extents up to number cut are in the left leaf,
\* and the extent around the end of the range is split first
remove_space(p, r, lo, hi, cut) ==
    LET all == Runs(emap)
        upto == SelectSeq([i \in DOMAIN all |-> Clip(all[i], 0, hi)], LAMBDA x : x.lo <= hi)
        right == NextMapped(hi + 1)
        s0 == [freed |-> 0, resv |-> r, pend |-> p,
               p |-> IF hi < EsLast /\ right <= EsLast
                     THEN [state |-> "nofree", clu |-> B2C(right)] ELSE NoPartial]
        end(s) == IF s.p.state = "tofree" THEN FreeClu(s, s.p.clu) ELSE s
    IN  IF ~MappedIn(emap, lo .. hi) THEN s0
        ELSE end(rm_leaf(rm_leaf(s0, SubSeq(upto, cut + 1, Len(upto)), lo),
                         SubSeq(upto, 1, Lesser(cut, Len(upto))), lo))

\* ext4_es_remove_extent, then ext4_ext_remove_space, of ext4_punch_hole (with
\* the hole noted) and ext4_truncate (to the end of the file)
RemoveRange(lo, hi, cut, d) ==
    /\ da = EsNone
    /\ \E b \in lo .. hi : IsMapped(b) \/ es[b] # "absent"
    /\ cut > 0 => cut < Len(Runs(emap))
    /\ LET g == get_rsvd(es, pend, lo, hi)
           s == remove_space(g.pend, Released(g.used), lo, hi, cut)
           e == es_remove(es, lo, hi, d)
       IN  /\ emap' = [b \in EsBlocks |-> IF b \in lo .. hi THEN "none" ELSE emap[b]]
           /\ es' = IF hi = EsLast THEN e ELSE es_insert(e, lo, hi, "hole", d)
           /\ pend' = s.pend /\ resv' = s.resv
           /\ freeclu' = freeclu + s.freed
    /\ UNCHANGED <<others, da>>

----------------------------------------------------------------------------

EsNext ==
    \/ \E b \in EsBlocks : Reclaim(RunOf(es, b))
    \/ \E d \in BOOLEAN :
          \/ CacheLeaf(d) \/ DaInsert(d)
          \/ \E b \in EsBlocks : \E n \in 1 .. EsLast + 1 - b :
                \/ MapQuery(b, n, d)
                \/ DaLookup(b, n, d)
                \/ \E st \in {"written", "unwritten"}, reserved \in BOOLEAN :
                      AllocBlocks(b, n, st, reserved, d)
                \/ ConvertExtent(b, n, "unwritten", "written", d)
                \/ ConvertExtent(b, n, "written", "unwritten", d)
                \/ \E cut \in 0 .. 1 : RemoveRange(b, b + n - 1, cut, d)

EsSpec == EsInit /\ [][EsNext]_esVars

\* The same where the memory for a pending reservation may be refused once.
EsRetryNext ==
    \/ EsNext
    \/ \E b \in EsBlocks, d \in BOOLEAN, k \in {1, 2} : \E n \in 1 .. EsLast + 1 - b :
          AllocPendingRetried(b, n, "written", d, k)

EsRetrySpec == EsInit /\ [][EsRetryNext]_esVars

----------------------------------------------------------------------------

\* A cached status is the extent tree's: a hit in the cache never answers
\* anything that ext4_ext_map_blocks would not, and a block is delayed only
\* while no extent maps it, whatever was evicted or could not be allocated.
EsTruthful ==
    \A b \in EsBlocks :
       /\ es[b] \in {"unwritten", "written"} => emap[b] = es[b]
       /\ es[b] \in {"hole", "delayed"} => emap[b] = "none"

\* i_reserved_data_blocks is exactly the number of clusters with delayed
\* blocks that will have to be allocated (no underflow warning of
\* ext4_da_update_reserve_space, and nothing left over at the end).
ReservationExact ==
    resv = Cardinality({c \in EsClu : Delayed(es, InClu(c)) /\ c \notin pend})

\* A reservation is pending for exactly the clusters that hold both delayed
\* and mapped blocks.
PendingClusters ==
    pend = {c \in EsClu : Delayed(es, InClu(c)) /\ MappedIn(emap, InClu(c))}

\* A cluster is free exactly when no extent uses it: the walk over partial
\* clusters frees each cluster once, and never one still in use.
ClustersFreedOnce ==
    freeclu + others + Cardinality({c \in EsClu : MappedIn(emap, InClu(c))}) = EsClusters

\* Delayed data always finds the space it was promised.
SpacePromised == resv <= freeclu

\* Every cluster is counted once: reserved while it has only delayed blocks,
\* pending while a delayed block shares it, freed with its last extent; and
\* what is promised is there.
ClustersCounted == ReservationExact /\ PendingClusters /\ ClustersFreedOnce /\ SpacePromised
=============================================================================
