----------------------------- MODULE AllocScan -----------------------------
(* ext4_mb_regular_allocator: the search of all groups for a free extent,  *)
(* under criteria that are relaxed pass by pass. A group is locked while   *)
(* it is scanned and no longer; other tasks take and free clusters between *)
(* two groups, between two passes, and between the choice of the best      *)
(* extent and its use.                                                     *)
EXTENDS Buddy

CONSTANTS
    ScGroups,       \* ngroups
    ScClusters,     \* clusters of each group that are not file system metadata
    ScMoves,        \* steps of other tasks during one search
    ScRequests,     \* pairs of a requested and a goal length
    OptimizeScan,   \* the mount option MB_OPTIMIZE_SCAN, for a file with extents
    MaxLinear,      \* s_mb_max_linear_groups
    Order2Reqs,     \* s_mb_order2_reqs
    MaxToScan,      \* s_mb_max_to_scan
    MinToScan,      \* s_mb_min_to_scan
    TrimOrder,      \* s_mb_best_avail_max_trim_order
    Stripe          \* s_stripe, or 0

VARIABLES
    sgrp,       \* the groups
    ac,         \* the allocation context
    always      \* clusters free ever since the allocation began

scVars == <<sgrp, ac, always>>

Groups == 0 .. ScGroups - 1
P2 == 0             \* CR_POWER2_ALIGNED
Fast == 1           \* CR_GOAL_LEN_FAST
BestAvail == 2      \* CR_BEST_AVAIL_LEN
Slow == 3           \* CR_GOAL_LEN_SLOW
AnyFree == 4        \* CR_ANY_FREE

Extent(g, ex) == [grp |-> g, start |-> ex.start, len |-> ex.len]
NoExtent == [grp |-> 0, start |-> 0, len |-> 0]

Loaded(g) == IF g.init THEN g ELSE generate_buddy(g)

----------------------------------------------------------------------------
(* Scanning one group, locked. A scan maps a pair of context and group to  *)
(* another.                                                                *)

\* ext4_mb_use_best_found
use_best_found(a, g) ==
    LET b == [a.b EXCEPT !.len = IF @ < a.glen THEN @ ELSE a.glen]
    IN  <<[a EXCEPT !.b = b, !.status = "found"], mark_used(g, b.start, b.len)>>

\* ext4_mb_check_limits
check_limits(a, g, finish) ==
    CASE a.status = "found" -> <<a, g>>
      [] a.status # "found" /\ a.found > MaxToScan /\ ~a.first ->
             <<[a EXCEPT !.status = "break"], g>>
      [] a.status # "found" /\ ~(a.found > MaxToScan /\ ~a.first) ->
             IF a.b.len >= a.glen /\ (finish \/ a.found > MinToScan)
             THEN use_best_found(a, g) ELSE <<a, g>>

\* ext4_mb_measure_extent
measure_extent(a, g, ex) ==
    LET a1 == [a EXCEPT !.found = @ + 1]
        better == \/ a.b.len < a.glen /\ ex.len > a.b.len
                  \/ a.b.len >= a.glen /\ ex.len > a.glen /\ ex.len < a.b.len
    IN  IF a.first \/ ex.len = a.glen THEN use_best_found([a1 EXCEPT !.b = ex], g)
        ELSE IF a.b.len = 0 THEN <<[a1 EXCEPT !.b = ex], g>>
        ELSE check_limits(IF better THEN [a1 EXCEPT !.b = ex] ELSE a1, g, FALSE)

\* ext4_mb_complex_scan_group
RECURSIVE scan_from(_, _, _, _)
scan_from(a, g, i, free) ==
    LET k == NextZero(g.bm, BdClusters, i)
        run == NextBit(g.bm, BdClusters, k) - k
        ex == Extent(a.grp, find_extent(g, k, a.glen))
        r == measure_extent(a, g, ex)
    IN  IF free = 0 \/ a.status # "continue" THEN <<a, g>>
        ELSE IF k >= BdClusters THEN <<a, [g EXCEPT !.corrupt = TRUE]>>
        ELSE IF a.cr < Slow /\ run < a.glen THEN scan_from(a, g, k + run, free - run)
        ELSE IF ex.len <= 0 THEN <<a, g>>
        ELSE IF free < ex.len THEN <<a, [g EXCEPT !.corrupt = TRUE]>>
        ELSE scan_from(r[1], r[2], k + ex.len, free - ex.len)

complex_scan_group(a, g) ==
    LET r == scan_from(a, g, g.first, g.free) IN check_limits(r[1], r[2], TRUE)

\* ext4_mb_simple_scan_group
simple_scan_group(a, g) ==
    LET O == {o \in a.ord2 .. BdMax : g.cnt[o] > 0}
        o == Min(O)
        k == FirstOf({i \in 0 .. BdMaxs(o) - 1 : IF o = 0 THEN i \notin g.bm ELSE i \notin g.bud[o]},
                     BdMaxs(o))
    IN  IF O = {} THEN <<a, g>>
        ELSE IF k = BdMaxs(o) THEN <<a, [g EXCEPT !.corrupt = TRUE]>>
        ELSE use_best_found([a EXCEPT !.found = @ + 1,
                                      !.b = [grp |-> a.grp, start |-> k * 2^o, len |-> 2^o]], g)

\* ext4_mb_scan_aligned (group g begins at block g * BdClusters)
scan_aligned(a, g) ==
    LET base == a.grp * BdClusters
        S == {i \in 0 .. BdClusters - 1 :
                /\ (base + i) % Stripe = 0 /\ i \notin g.bm
                /\ find_extent(g, i, Stripe).len >= Stripe}
    IN  IF S = {} THEN <<a, g>>
        ELSE use_best_found([a EXCEPT !.found = @ + 1,
                                      !.b = Extent(a.grp, find_extent(g, Min(S), Stripe))], g)

\* ext4_mb_good_group
good_group(a, g, cr) ==
    /\ ~g.corrupt /\ g.free # 0 /\ g.frags # 0
    /\ CASE cr = P2 -> g.free >= a.glen /\ (a.ord2 <= BdMax => g.largest >= a.ord2)
         [] cr \in {Fast, BestAvail} -> g.free \div g.frags >= a.glen
         [] cr = Slow -> g.free >= a.glen
         [] cr = AnyFree -> TRUE

\* ext4_mb_good_group_nolock: the group with its buddy, if it is worth a scan
\* (without flexible groups, an uninitialised group waits for a slow pass)
good_group_nolock(a, g) ==
    LET skip == \/ g.free = 0 \/ g.corrupt
                \/ a.cr < AnyFree /\ g.free < a.glen
                \/ ~g.init /\ a.cr < Slow
    IN  IF skip THEN [g |-> g, good |-> FALSE]
        ELSE [g |-> Loaded(g), good |-> good_group(a, Loaded(g), a.cr)]

\* the body of the loop over groups
scan_group(a, g) ==
    LET p == good_group_nolock(a, g)
        r == IF a.cr \in {Fast, BestAvail} /\ Stripe > 0 /\ a.glen % Stripe = 0
             THEN scan_aligned(a, p.g) ELSE <<a, p.g>>
    IN  IF ~p.good THEN <<a, p.g>>
        ELSE IF a.cr = P2 THEN simple_scan_group(a, p.g)
        ELSE IF r[1].status = "continue" THEN complex_scan_group(r[1], r[2]) ELSE r

----------------------------------------------------------------------------
(* Choosing the next group: each operator gives the possible contexts with *)
(* the next group and criterion; the lists a group is looked up in are the *)
(* groups by their order, in any sequence.                                 *)

Linear(a) == [a EXCEPT !.grp = IF @ + 1 >= ScGroups THEN 0 ELSE @ + 1]

\* ext4_mb_choose_next_group_p2_aligned
next_p2_aligned(a, G) ==
    LET Good(o) == {g \in Groups : G[g].largest = o /\ good_group(a, G[g], P2)}
        O == {o \in a.ord2 .. BdMax : Good(o) # {}}
    IN  IF O = {} THEN {[a EXCEPT !.newcr = Fast]}
        ELSE {[a EXCEPT !.grp = g] : g \in Good(Min(O))}

\* ext4_mb_find_good_group_avg_frag_lists
avg_frag_list(a, G, o) == {g \in Groups : G[g].avg = o /\ good_group(a, G[g], a.cr)}

\* ext4_mb_choose_next_group_goal_fast, for data (EXT4_MB_HINT_DATA) or not
next_goal_fast(a, G) ==
    LET O == {o \in avg_fragment_size_order(a.glen) .. BdMax : avg_frag_list(a, G, o) # {}}
    IN  IF O = {} THEN {[a EXCEPT !.newcr = IF a.data THEN BestAvail ELSE Slow]}
        ELSE {[a EXCEPT !.grp = g] : g \in avg_frag_list(a, G, Min(O))}

\* Mutant: the goal may be trimmed below the request.
trim_from_any(a) == LET o == Fls(a.glen) - 1 IN IF o - TrimOrder > 0 THEN o - TrimOrder ELSE 0

\* the smallest order the goal may be trimmed to
trim_from(a) ==
    LET o == Fls(a.glen) - 1
        m == IF o - TrimOrder > 0 THEN o - TrimOrder ELSE 0
        s == IF Stripe > 0 /\ 2^m < Stripe THEN Fls(Stripe) - 1 ELSE m
    IN  IF 2^s < a.olen THEN Fls(a.olen) ELSE s

\* ext4_mb_choose_next_group_best_avail
next_best_avail(a, G) ==
    LET len(i) == IF Stripe > 0 THEN ((2^i + Stripe - 1) \div Stripe) * Stripe ELSE 2^i
        Good(i) == LET t == [a EXCEPT !.glen = len(i)]
                   IN  avg_frag_list(t, G, avg_fragment_size_order(len(i)))
        I == {i \in trim_from(a) .. Fls(a.glen) - 1 : Good(i) # {}}
    IN  IF I = {} THEN {[a EXCEPT !.glen = a.orig, !.newcr = Slow]}
        ELSE {[a EXCEPT !.grp = g, !.glen = len(Max(I))] : g \in Good(Max(I))}

\* ext4_mb_choose_next_group
choose_next_group(a, G) ==
    LET a1 == [a EXCEPT !.newcr = a.cr]
    IN  IF ~OptimizeScan \/ a.cr >= Slow THEN {Linear(a1)}
        ELSE IF a.lin > 0 THEN {[Linear(a1) EXCEPT !.lin = @ - 1]}
        ELSE CASE a.cr = P2 -> next_p2_aligned(a1, G)
               [] a.cr = Fast -> next_goal_fast(a1, G)
               [] a.cr = BestAvail -> next_best_avail(a1, G)

\* the start of a pass, or the end of the search
Pass(a, cr) ==
    IF cr > AnyFree \/ a.status # "continue" THEN [a EXCEPT !.st = "best"]
    ELSE [a EXCEPT !.cr = cr, !.newcr = cr, !.grp = a.goal, !.i = 0, !.lin = MaxLinear]

\* what follows a group: the next one, another criterion, or the end of a pass
AfterGroup(a, G) ==
    IF a.status # "continue" THEN {Pass(a, a.cr)}
    ELSE {IF n.i + 1 < ScGroups
          THEN IF n.newcr # n.cr THEN Pass(n, n.newcr) ELSE [n EXCEPT !.i = @ + 1]
          ELSE Pass([n EXCEPT !.glen = IF n.cr = BestAvail THEN n.orig ELSE @], n.cr + 1)
          : n \in choose_next_group(a, G)}

----------------------------------------------------------------------------
Meta == ScClusters .. BdBits - 1
Idle == [st |-> "idle", olen |-> 0, glen |-> 0, orig |-> 0, goal |-> 0, gstart |-> 0, cr |-> 0,
         newcr |-> 0, grp |-> 0, i |-> 0, lin |-> 0, ord2 |-> 0, found |-> 0, status |-> "continue",
         moves |-> 0,
         b |-> NoExtent, first |-> FALSE, data |-> FALSE, try |-> FALSE, only |-> FALSE,
         merge |-> FALSE]
FreeNow == {<<g, c>> \in Groups \X (0 .. ScClusters - 1) : c \notin sgrp[g].bm}

ScInit ==
    /\ sgrp \in [Groups -> {GroupOf(bm \cup Meta) : bm \in SUBSET (0 .. ScClusters - 1)}]
    /\ ac = Idle
    /\ always = {}

\* ext4_mb_new_blocks calls the allocator with a request and its flags
ScanStart ==
    /\ ac.st = "idle"
    /\ \E r \in ScRequests, f \in {"try", "only", "merge", "none"}, d \in BOOLEAN :
         ac' = [Idle EXCEPT !.st = "goal", !.olen = r[1], !.glen = r[2], !.orig = r[2],
                            !.try = f \in {"try", "merge"}, !.only = f = "only",
                            !.merge = f = "merge", !.data = d]
    /\ always' = FreeNow
    /\ UNCHANGED sgrp

\* ext4_mb_find_by_goal, and the criterion the passes start from
find_by_goal(a, g) ==
    LET ex == Extent(a.goal, find_extent(g, a.gstart, a.glen))
        aligned == a.glen = Stripe => (a.goal * BdClusters + ex.start) % Stripe = 0
    IN  IF \/ ex.len >= a.glen /\ aligned
           \/ ex.len > 0 /\ ex.len < a.glen /\ a.merge
        THEN use_best_found([a EXCEPT !.found = @ + 1, !.b = ex], g) ELSE <<a, g>>

ScanGoal ==
    /\ ac.st = "goal"
    /\ LET g == sgrp[ac.goal]
           look == (ac.try \/ ac.only) /\ g.free # 0
           r == IF look /\ ~g.corrupt THEN find_by_goal(ac, Loaded(g)) ELSE <<ac, g>>
           n == Fls(ac.glen)
           ord2 == IF n >= Order2Reqs /\ n <= BdMax + 1 /\ ac.glen = 2^(n - 1) THEN n - 1 ELSE 0
       IN  /\ sgrp' = [sgrp EXCEPT ![ac.goal] = r[2]]
           /\ ac' = IF r[1].status = "found" \/ ac.only THEN [r[1] EXCEPT !.st = "done"]
                    ELSE Pass([r[1] EXCEPT !.st = "scan", !.ord2 = ord2],
                              IF ord2 > 0 THEN P2 ELSE Fast)
    /\ UNCHANGED always

\* one group of a pass
ScanGroup ==
    /\ ac.st = "scan"
    /\ LET r == scan_group(ac, sgrp[ac.grp])
           G == [sgrp EXCEPT ![ac.grp] = r[2]]
       IN  sgrp' = G /\ ac' \in AfterGroup(r[1], G)
    /\ UNCHANGED always

\* the best chunk was taken by somebody else: the first free chunk will do
LostChunk(a) ==
    Pass([a EXCEPT !.st = "scan", !.b = NoExtent, !.status = "continue", !.first = TRUE], AnyFree)

\* ext4_mb_try_best_found
ScanBest ==
    /\ ac.st = "best"
    /\ IF ac.b.len > 0 /\ ac.status # "found" /\ ~ac.first
       THEN LET g == Loaded(sgrp[ac.b.grp])
                ex == Extent(ac.b.grp, find_extent(g, ac.b.start, ac.b.len))
                r == use_best_found([ac EXCEPT !.b = ex, !.st = "done"], g)
            IN  IF ~g.corrupt /\ ex.len > 0
                THEN ac' = r[1] /\ sgrp' = [sgrp EXCEPT ![ac.b.grp] = r[2]]
                ELSE ac' = LostChunk(ac) /\ UNCHANGED sgrp
       ELSE ac' = [ac EXCEPT !.st = "done"] /\ UNCHANGED sgrp
    /\ UNCHANGED always

ScanDone ==
    /\ ac.st = "done"
    /\ ac' = Idle /\ always' = {}
    /\ UNCHANGED sgrp

\* other tasks, between the locked sections of the search (at most ScMoves times)
OtherTakes(g, c) ==
    /\ ac.st \notin {"idle", "done"} /\ ac.moves < ScMoves /\ c \notin sgrp[g].bm
    /\ sgrp' = [sgrp EXCEPT ![g] = mark_used(Loaded(@), c, 1)]
    /\ ac' = [ac EXCEPT !.moves = @ + 1]
    /\ always' = always \ {<<g, c>>}

OtherFrees(g, c) ==
    /\ ac.st \notin {"idle", "done"} /\ ac.moves < ScMoves /\ c \in sgrp[g].bm
    /\ sgrp' = [sgrp EXCEPT ![g] = free_blocks(Loaded(@), c, 1, FALSE)]
    /\ ac' = [ac EXCEPT !.moves = @ + 1]
    /\ UNCHANGED always

ScNext ==
    \/ ScanStart \/ ScanGoal \/ ScanGroup \/ ScanBest \/ ScanDone
    \/ \E g \in Groups, c \in 0 .. ScClusters - 1 : OtherTakes(g, c) \/ OtherFrees(g, c)

ScSpec == ScInit /\ [][ScNext]_scVars

----------------------------------------------------------------------------
\* A search that ends with nothing has not overlooked a cluster: none was
\* free all the time it ran, unless the goal alone was asked for. (The last
\* pass of ext4_mb_regular_allocator, and its repetition after a lost chunk.)
NothingOverlooked ==
    ac.st = "done" /\ ac.status # "found" /\ ~ac.only => always = {}

\* What is found has a positive length of at most the goal; a pass that trims
\* the goal keeps it at or above the request (the BUG_ONs of
\* ext4_mb_new_inode_pa); the scan of aligned chunks takes exactly the goal
\* (BUG_ON in ext4_mb_simple_scan_group); no scan finds the buddy in
\* disagreement with its counters.
ScanSound ==
    /\ ac.status = "found" => ac.b.len \in 1 .. ac.glen
    /\ ac.glen >= ac.olen
    /\ ac.status = "found" /\ ac.st # "done" /\ ac.cr = P2 => ac.b.len = ac.glen
    /\ \A g \in Groups : ~sgrp[g].corrupt

\* The buddy data says what the bitmap says, an extent that is handed out is
\* free, and a search gives up only if no group had what it asked for.
ScanExact == BuddyExact /\ FindExtentRight /\ ScanSound /\ NothingOverlooked
=============================================================================
