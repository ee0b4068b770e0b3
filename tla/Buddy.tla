------------------------------- MODULE Buddy -------------------------------
(* The in-core allocation state of one block group (mballoc.c): the bitmap *)
(* of its clusters, the buddy bitmaps of free aligned chunks of 2^order    *)
(* clusters, and the summary kept beside them (bb_counters, bb_free,       *)
(* bb_fragments, bb_first_free and the orders the group lists go by).      *)
(* Allocation and freeing update all of it incrementally under the group   *)
(* lock; ext4_mb_generate_buddy computes it from the bitmap.               *)
EXTENDS Integers, FiniteSets, FiniteSetsExt

CONSTANTS
    BdMax,          \* the largest order, s_blocksize_bits + 1
    BdClusters      \* EXT4_CLUSTERS_PER_GROUP

VARIABLES
    bgrp,       \* the group
    bheld       \* clusters whose bit is set for somebody: files, or the trim under way

bdVars == <<bgrp, bheld>>

BdBits == 4 * 2^BdMax           \* s_mb_maxs[0]: bits of one bitmap block
BdMaxs(o) == BdBits \div 2^o
BdOrders == 0 .. BdMax

Fls(n) == IF n = 0 THEN 0 ELSE 1 + (CHOOSE k \in 0 .. 31 : 2^k <= n /\ n < 2^(k + 1))
LowOrder(n) ==
    IF n = 0 THEN BdMax
    ELSE CHOOSE k \in BdOrders : /\ n % 2^k = 0
                                 /\ k = BdMax \/ n % 2^(k + 1) # 0
FirstOf(S, max) == IF S = {} THEN max ELSE Min(S)

\* mb_find_next_zero_bit, mb_find_next_bit in the bitmap of the group
NextZero(bm, max, i) == FirstOf({k \in i .. max - 1 : k \notin bm}, max)
NextBit(bm, max, i) == FirstOf({k \in i .. max - 1 : k \in bm}, max)

----------------------------------------------------------------------------
(* Building the buddy from the bitmap.                                     *)

\* ext4_mb_mark_free_simple: put a free range on the buddy in maximal chunks
RECURSIVE mark_free_simple(_, _, _)
mark_free_simple(g, first, len) ==
    IF len <= 0 THEN g
    ELSE LET top == LowOrder(first)
             o == IF top < Fls(len) - 1 THEN top ELSE Fls(len) - 1
         IN  mark_free_simple(
                 [g EXCEPT !.cnt[o] = @ + 1,
                           !.bud = IF o > 0 THEN [@ EXCEPT ![o] = @ \ {first \div 2^o}] ELSE @],
                 first + 2^o, len - 2^o)

\* mb_set_largest_free_order, mb_update_avg_fragment_size
avg_fragment_size_order(n) ==
    LET o == Fls(n) - 2 IN IF o < 0 THEN 0 ELSE IF o >= BdMax + 1 THEN BdMax ELSE o
set_orders(g) ==
    [g EXCEPT !.largest = IF \E o \in BdOrders : g.cnt[o] > 0
                          THEN Max({o \in BdOrders : g.cnt[o] > 0}) ELSE -1,
              !.avg = IF g.frags = 0 THEN -1 ELSE avg_fragment_size_order(g.free \div g.frags)]

\* ext4_mb_generate_buddy of a bitmap, from cleared counters and full buddies
RECURSIVE generate_runs(_, _, _)
generate_runs(g, i, free) ==
    IF i >= BdClusters THEN <<g, free>>
    ELSE LET j == NextBit(g.bm, BdClusters, i)
             h == IF j - i > 1 THEN mark_free_simple(g, i, j - i) ELSE [g EXCEPT !.cnt[0] = @ + 1]
         IN  generate_runs([h EXCEPT !.frags = @ + 1],
                           IF j < BdClusters THEN NextZero(g.bm, BdClusters, j) ELSE j,
                           free + j - i)

generate_buddy(g) ==
    LET i == NextZero(g.bm, BdClusters, 0)
        bare == [g EXCEPT !.first = i, !.frags = 0, !.cnt = [o \in BdOrders |-> 0],
                          !.bud = [o \in 1 .. BdMax |-> 0 .. BdMaxs(o) - 1]]
        r == generate_runs(bare, i, 0)
    IN  set_orders([r[1] EXCEPT !.free = r[2], !.init = TRUE,
                                !.corrupt = @ \/ r[2] # g.free])

\* A group as it is before its buddy is generated: only bb_free is known.
GroupOf(bm) ==
    [bm |-> bm, free |-> Cardinality(0 .. BdClusters - 1 \ bm), init |-> FALSE, corrupt |-> FALSE,
     first |-> 0, frags |-> 0, largest |-> -1, avg |-> -1, cnt |-> [o \in BdOrders |-> 0],
     bud |-> [o \in 1 .. BdMax |-> 0 .. BdMaxs(o) - 1]]

----------------------------------------------------------------------------
(* Looking up and changing it.                                             *)

\* mb_find_order_for_block: the order of the free chunk that holds a cluster
find_order_for_block(g, b) ==
    FirstOf({o \in 1 .. BdMax : b \div 2^o \notin g.bud[o]}, 0)

\* mb_find_extent: the free chunks from b on, until needed clusters are found
RECURSIVE extend(_, _, _, _, _)
extend(g, blk, o, len, needed) ==
    LET next == (blk + 1) * 2^o
        p == find_order_for_block(g, next)
    IN  IF needed <= len \/ blk + 1 >= BdMaxs(o) \/ next \in g.bm THEN len
        ELSE extend(g, next \div 2^p, p, len + 2^p, needed)

find_extent(g, b, needed) ==
    LET o == find_order_for_block(g, b)
        len == extend(g, b \div 2^o, o, 2^o - (b % 2^o), needed)
    IN  IF b \in g.bm \/ b + len > BdClusters THEN [start |-> 0, len |-> 0]
        ELSE [start |-> b, len |-> len]

\* mb_mark_used: the loop over the chunks that hold the range
RECURSIVE take_chunks(_, _, _)
take_chunks(g, start, len) ==
    IF len = 0 THEN g
    ELSE LET o == find_order_for_block(g, start)
             at == (start \div 2^o) * 2^o
             end == at + 2^o
             g1 == [g EXCEPT !.cnt[o] = @ - 1,
                             !.bud = IF o > 0 THEN [@ EXCEPT ![o] = @ \cup {start \div 2^o}] ELSE @]
             g2 == mark_free_simple(g1, at, start - at)
         IN  CASE at = start /\ len >= 2^o -> take_chunks(g1, start + 2^o, len - 2^o)
               [] (at # start \/ len < 2^o) /\ start + len < end ->
                      mark_free_simple(g2, start + len, end - (start + len))
               [] OTHER -> take_chunks(g2, end, start + len - end)

mark_used(g, start, len) ==
    LET before == start # 0 /\ start - 1 \notin g.bm
        after == start + len < BdBits /\ start + len \notin g.bm
        g1 == [g EXCEPT !.free = @ - len,
                        !.first = IF @ = start THEN @ + len ELSE @,
                        !.frags = IF before /\ after THEN @ + 1
                                  ELSE IF ~before /\ ~after THEN @ - 1 ELSE @]
    IN  [set_orders(take_chunks(g1, start, len)) EXCEPT !.bm = @ \cup start .. start + len - 1]

\* mb_buddy_adjust_border at one end of a range of chunks being freed
adjust_border(g, o, bit, side) ==
    IF bit + side \in g.bud[o]
    THEN <<[g EXCEPT !.bud[o] = @ \ {bit}, !.cnt[o] = @ + 1], bit - side>>
    ELSE <<[g EXCEPT !.bud[o] = @ \cup {bit + side}, !.cnt[o] = @ - 1], bit + side>>

\* mb_buddy_mark_free
RECURSIVE buddy_mark_free(_, _, _, _)
buddy_mark_free(g, o, first, last) ==
    LET l == IF first % 2 = 1 THEN adjust_border(g, o, first, -1) ELSE <<g, first>>
        r == IF last % 2 = 0 THEN adjust_border(l[1], o, last, 1) ELSE <<l[1], last>>
    IN  IF l[2] > r[2] THEN r[1]
        ELSE IF o = BdMax
             THEN [r[1] EXCEPT !.bud[o] = @ \ (l[2] .. r[2]), !.cnt[o] = @ + r[2] - l[2] + 1]
             ELSE buddy_mark_free(r[1], o + 1, l[2] \div 2, r[2] \div 2)

Bool(b) == IF b THEN 1 ELSE 0

\* mb_free_blocks: a bit that is clear already marks the group corrupt, or
\* has the buddy generated again when a fast commit is being replayed
free_blocks(g, first, count, replay) ==
    LET last == first + count - 1
        bm == g.bm \ (first .. last)
        left == first # 0 /\ first - 1 \notin g.bm
        right == last + 1 < BdBits /\ last + 1 \notin g.bm
        g1 == [g EXCEPT
                 !.bm = bm, !.free = @ + count,
                 !.first = IF first < @ THEN first ELSE @,
                 !.frags = IF left /\ right THEN @ - 1 ELSE IF ~left /\ ~right THEN @ + 1 ELSE @,
                 !.cnt[0] = @ + (IF first % 2 = 1 THEN (IF left THEN -1 ELSE 1) ELSE 0)
                              + (IF last % 2 = 0 THEN (IF right THEN -1 ELSE 1) ELSE 0)]
        f == IF first % 2 = 1 THEN first + Bool(~left) ELSE first
        t == IF last % 2 = 0 THEN last - Bool(~right) ELSE last
    IN  CASE g.corrupt -> g
          [] ~g.corrupt /\ ~(first .. last \subseteq g.bm) ->
                 IF replay THEN generate_buddy([g EXCEPT !.bm = bm])
                 ELSE [g EXCEPT !.bm = bm, !.corrupt = TRUE]
          [] OTHER -> set_orders(IF f <= t THEN buddy_mark_free(g1, 1, f \div 2, t \div 2) ELSE g1)

----------------------------------------------------------------------------
(* One group: ranges are taken and freed; a range found free is taken,     *)
(* discarded without the lock and freed again (ext4_trim_extent); bits are *)
(* freed that are not set, after which the group is left alone.            *)

\* An empty group, or one that is full.
BdInit ==
    \E used \in {{}, 0 .. BdClusters - 1} :
       /\ bgrp = generate_buddy(GroupOf(used \cup BdClusters .. BdBits - 1))
       /\ bheld = [files |-> used, trim |-> {}]

Take(b, n) ==
    /\ ~bgrp.corrupt /\ b + n <= BdClusters
    /\ LET ex == find_extent(bgrp, b, n)
           len == IF ex.len < n THEN ex.len ELSE n
       IN  /\ len > 0
           /\ bgrp' = mark_used(bgrp, b, len)
           /\ bheld' = [bheld EXCEPT !.files = @ \cup b .. b + len - 1]

Free(b, n) ==
    /\ ~bgrp.corrupt /\ b + n <= BdClusters /\ b .. b + n - 1 \subseteq bheld.files
    /\ bgrp' = free_blocks(bgrp, b, n, FALSE)
    /\ bheld' = [bheld EXCEPT !.files = @ \ (b .. b + n - 1)]

\* ext4_trim_extent, before and after the discard it issues unlocked
TrimTake(b) ==
    /\ bheld.trim = {} /\ ~bgrp.corrupt /\ b \notin bgrp.bm
    /\ b = 0 \/ b - 1 \in bgrp.bm
    /\ LET next == NextBit(bgrp.bm, BdClusters, b)
       IN  /\ bgrp' = mark_used(bgrp, b, next - b)
           /\ bheld' = [bheld EXCEPT !.trim = b .. next - 1]

TrimDone ==
    /\ bheld.trim # {} /\ ~bgrp.corrupt
    /\ bgrp' = free_blocks(bgrp, Min(bheld.trim), Cardinality(bheld.trim), FALSE)
    /\ bheld' = [bheld EXCEPT !.trim = {}]

FreeTwice(b, replay) ==
    /\ ~bgrp.corrupt /\ b \notin bgrp.bm /\ b < BdClusters - 1 /\ b + 1 \in bheld.files
    /\ bgrp' = free_blocks(bgrp, b, 2, replay)
    /\ bheld' = [bheld EXCEPT !.files = @ \ {b + 1}]

BdNext ==
    \/ \E b \in 0 .. BdClusters - 1, n \in 1 .. BdClusters : Take(b, n) \/ Free(b, n)
    \/ \E b \in 0 .. BdClusters - 1 : TrimTake(b) \/ \E replay \in BOOLEAN : FreeTwice(b, replay)
    \/ TrimDone

BdSpec == BdInit /\ [][BdNext]_bdVars

----------------------------------------------------------------------------
\* The buddy bitmaps, counters, fragment count and orders that allocation and
\* freeing maintain step by step are the ones ext4_mb_generate_buddy computes
\* from the bitmap, and no free cluster lies before bb_first_free
\* (mb_check_buddy), until a double free marks the group corrupt.
BuddyExact ==
    ~bgrp.corrupt =>
        LET ref == generate_buddy(GroupOf(bgrp.bm))
        IN  /\ [bgrp EXCEPT !.first = ref.first] = ref
            /\ bgrp.first <= ref.first

\* mb_find_extent reports nothing where the cluster is in use; elsewhere it
\* reports a range that is free, and one that is as long as was asked for
\* unless the free run ends before.
FindExtentRight ==
    ~bgrp.corrupt =>
        \A b \in 0 .. BdClusters - 1 :
            IF b \in bgrp.bm THEN find_extent(bgrp, b, 1).len = 0
            ELSE LET run == NextBit(bgrp.bm, BdClusters, b) - b
                 IN  \A n \in 1 .. BdClusters :
                        LET len == find_extent(bgrp, b, n).len
                        IN  len <= run /\ (n <= run => n <= len) /\ (n > run => len = run)

=============================================================================
