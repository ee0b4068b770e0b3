---------------------------- MODULE ExtentTree ----------------------------
(* The extent tree of one inode: a B-tree of extents whose root is in the  *)
(* inode and whose other nodes are metadata blocks. Beside the tree the    *)
(* model keeps the map it stands for, one entry per logical block, changed *)
(* by each operation as its caller means it.                               *)
(*                                                                         *)
(* A node is a sequence of entries; an index entry holds the node below    *)
(* it. A path is the sequence of the positions from the root to a leaf (0: *)
(* the leaf is empty). Every operation runs under i_data_sem.              *)
EXTENDS Integers, FiniteSets, SequencesExt

CONSTANTS
    EtLast,         \* logical blocks are 0 .. EtLast
    EtRootMax,      \* ext4_ext_space_root: entries of the inode's node
    EtBlockMax,     \* ext4_ext_space_block: entries of any other
    EtInitMax,      \* EXT_INIT_MAX_LEN
    EtUnwMax,       \* EXT_UNWRITTEN_MAX_LEN
    EtGoals,        \* physical minus logical number where allocation may place a block
    EtZeroout,      \* s_extent_max_zeroout_kb, in blocks
    EtNone          \* no block, no I/O

VARIABLES
    xtree,  \* [d: depth, e: root, m: metadata blocks, left: how many more the
            \*  running operation gets, cr: its handle can be extended,
            \*  bad: a BUG_ON or EXT4_ERROR_INODE was reached]
    fmap,   \* logical block -> [p: physical block, v: holds valid data or zeros,
            \*  x: a split made it a written block all the same]
    xio     \* the unwritten range under I/O

etVars == <<xtree, fmap, xio>>

EtBlocks == 0 .. EtLast
ExtEnd(x) == x.b + x.l
Holds(x, b) == x.b <= b /\ b < ExtEnd(x)
Room(level) == IF level = 0 THEN EtRootMax ELSE EtBlockMax

\* the node of a path at a level, and the tree with another node there
RECURSIVE NodeAt(_, _, _)
NodeAt(e, pos, level) ==
    IF level = 0 THEN e ELSE NodeAt(e[pos[1]].k, Tail(pos), level - 1)
RECURSIVE PutNode(_, _, _, _)
PutNode(e, pos, level, n) ==
    IF level = 0 THEN n
    ELSE [e EXCEPT ![pos[1]].k = PutNode(@, Tail(pos), level - 1, n)]

ExtLeaf(T, pos) == NodeAt(T.e, pos, T.d)
PutLeaf(T, pos, e) == [T EXCEPT !.e = PutNode(@, pos, T.d, e)]
Here(T, pos) == ExtLeaf(T, pos)[pos[T.d + 1]]
SetHere(T, pos, x) == PutLeaf(T, pos, [ExtLeaf(T, pos) EXCEPT ![pos[T.d + 1]] = x])

\* ext4_ext_binsearch, ext4_ext_binsearch_idx: the last entry at or before b,
\* else the first
binsearch(e, b) == IF e = << >> THEN 0 ELSE Max({1} \cup {i \in DOMAIN e : e[i].b <= b})

RECURSIVE FindPos(_, _, _)
FindPos(e, d, b) ==
    LET i == binsearch(e, b)
    IN  IF d = 0 THEN <<i>> ELSE <<i>> \o FindPos(e[i].k, d - 1, b)
find_extent(T, b) == FindPos(T.e, T.d, b)

----------------------------------------------------------------------------
(* Neighbours. EtLast + 1 stands for EXT_MAX_BLOCKS.                       *)

next_leaf_block(T, pos) ==
    LET up == {k \in 0 .. T.d - 1 : pos[k + 1] < Len(NodeAt(T.e, pos, k))}
    IN  IF up = {} THEN EtLast + 1
        ELSE NodeAt(T.e, pos, Max(up))[pos[Max(up) + 1] + 1].b

next_allocated_block(T, pos) ==
    LET e == ExtLeaf(T, pos)
        i == pos[T.d + 1]
    IN  IF i > 0 /\ i < Len(e) THEN e[i + 1].b ELSE next_leaf_block(T, pos)

\* the last mapped block before b, the first one after it (b is not mapped)
search_left(T, pos, b) ==
    IF ExtLeaf(T, pos) = << >> \/ b < Here(T, pos).b THEN -1 ELSE ExtEnd(Here(T, pos)) - 1
search_right(T, pos, b) ==
    IF ExtLeaf(T, pos) = << >> THEN EtLast + 1
    ELSE IF b < Here(T, pos).b THEN Here(T, pos).b
    ELSE next_allocated_block(T, pos)

----------------------------------------------------------------------------
(* Merging.                                                                *)

can_extents_be_merged_by_number(x, y) ==
    /\ x.u = y.u /\ ExtEnd(x) = y.b
    /\ x.l + y.l <= IF x.u THEN EtUnwMax ELSE EtInitMax

can_extents_be_merged(x, y) ==
    /\ x.u = y.u /\ ExtEnd(x) = y.b /\ x.p + x.l = y.p
    /\ x.l + y.l <= IF x.u THEN EtUnwMax ELSE EtInitMax

RECURSIVE merge_right(_, _)
merge_right(e, i) ==
    IF i < Len(e) /\ can_extents_be_merged(e[i], e[i + 1])
    THEN merge_right(RemoveAt([e EXCEPT ![i].l = @ + e[i + 1].l], i + 1), i)
    ELSE e

\* a root with one leaf small enough becomes that leaf
merge_up(T) ==
    IF T.d = 1 /\ Len(T.e) = 1 /\ Len(T.e[1].k) <= EtRootMax /\ T.cr
    THEN [T EXCEPT !.d = 0, !.e = T.e[1].k, !.m = @ - 1]
    ELSE T

try_to_merge(T, pos, i) ==
    LET e == ExtLeaf(T, pos)
        l == IF i > 1 THEN merge_right(e, i - 1) ELSE e
    IN  merge_up(PutLeaf(T, pos, IF l # e THEN l ELSE merge_right(e, i)))

----------------------------------------------------------------------------
(* Insertion.                                                              *)

\* the keys above a node follow its first entry, as long as it is first in its
\* own; d: levels of indexes
RECURSIVE FixKeys(_, _, _, _)
FixKeys(e, pos, d, b) ==
    IF d = 0 THEN e
    ELSE [e EXCEPT ![pos[1]] = [b |-> IF \A j \in 2 .. d : pos[j] = 1 THEN b ELSE @.b,
                                k |-> FixKeys(@.k, Tail(pos), d - 1, b)]]

correct_indexes(T, pos) ==
    IF T.d = 0 \/ pos[T.d + 1] # 1 THEN T
    ELSE [T EXCEPT !.e = FixKeys(@, pos, T.d, ExtLeaf(T, pos)[1].b)]

\* ext4_ext_split below the node that takes the new index: what stays, what
\* goes to the new blocks
RECURSIVE Cleave(_, _, _, _)
Cleave(e, pos, d, border) ==
    LET i == pos[1]
        low == Cleave(e[i].k, Tail(pos), d - 1, border)
    IN  IF d = 0 THEN [l |-> SubSeq(e, 1, i), r |-> SubSeq(e, i + 1, Len(e))]
        ELSE [l |-> SubSeq([e EXCEPT ![i].k = low.l], 1, i),
              r |-> <<[b |-> border, k |-> low.r]>> \o SubSeq(e, i + 1, Len(e))]

insert_index(n, i, b, k) ==
    InsertAt(n, IF b > n[i].b THEN i + 1 ELSE i, [b |-> b, k |-> k])

ext_split(T, pos, new, at) ==
    LET leaf == ExtLeaf(T, pos)
        i == pos[T.d + 1]
        border == IF i < Len(leaf) THEN leaf[i + 1].b ELSE new.b
        n == NodeAt(T.e, pos, at)
        j == pos[at + 1]
        c == Cleave(n[j].k, SubSeq(pos, at + 2, T.d + 1), T.d - at - 1, border)
        need == T.d - at
    IN  [T EXCEPT !.e = PutNode(@, pos, at, insert_index([n EXCEPT ![j].k = c.l], j, border, c.r)),
                  !.m = @ + need, !.left = @ - need, !.bad = @ \/ border = n[j].b]

\* the root moves into a block of its own
grow_indepth(T) ==
    [T EXCEPT !.d = @ + 1, !.e = <<[b |-> T.e[1].b, k |-> T.e]>>, !.m = @ + 1, !.left = @ - 1]

\* [ok, T]: a leaf with room for the new extent, or no block for it
RECURSIVE create_new_leaf(_, _, _)
create_new_leaf(T, pos, new) ==
    LET free == {i \in 0 .. T.d - 1 : Len(NodeAt(T.e, pos, i)) < Room(i)}
        G == grow_indepth(T)
        q == find_extent(G, new.b)
    IN  IF free # {}
        THEN IF T.d - Max(free) > T.left THEN [ok |-> FALSE, T |-> T]
             ELSE [ok |-> TRUE, T |-> ext_split(T, pos, new, Max(free))]
        ELSE IF T.left = 0 THEN [ok |-> FALSE, T |-> T]
        ELSE IF Len(ExtLeaf(G, q)) = Room(G.d) THEN create_new_leaf(G, q, new)
        ELSE [ok |-> TRUE, T |-> G]

\* the new extent enters the leaf of the path; pre: EXT4_GET_BLOCKS_PRE_IO
Place(T, pos, new, pre) ==
    LET e == ExtLeaf(T, pos)
        i == pos[T.d + 1]
        at == IF i = 0 THEN 1 ELSE IF new.b > e[i].b THEN i + 1 ELSE i
        q == [pos EXCEPT ![T.d + 1] = at]
        P == [PutLeaf(T, pos, InsertAt(e, at, new))
                 EXCEPT !.bad = @ \/ (i > 0 /\ new.b = e[i].b)]
    IN  [ok |-> TRUE, pos |-> q, T |-> correct_indexes(IF pre THEN P ELSE try_to_merge(P, q, at), q)]

\* [ok, T, pos]
insert_extent(T, pos, new, pre) ==
    LET e == ExtLeaf(T, pos)
        i == pos[T.d + 1]
        n == Len(e)
        j == IF i < n /\ ExtEnd(e[i]) < new.b THEN i + 1
             ELSE IF i > 1 /\ ExtEnd(new) < e[i].b THEN i - 1 ELSE i
        append == i > 0 /\ ~pre /\ j # i + 1 /\ can_extents_be_merged(e[j], new)
        prepend == i > 0 /\ ~pre /\ can_extents_be_merged(new, e[j])
        M == PutLeaf(T, pos, [e EXCEPT ![j] = [b |-> IF append THEN @.b ELSE new.b,
                                               p |-> IF append THEN @.p ELSE new.p,
                                               l |-> @.l + new.l, u |-> @.u]])
        next == IF new.b > e[n].b THEN next_leaf_block(T, pos) ELSE EtLast + 1
        q == find_extent(T, next)
        placed(c) == IF c.ok THEN Place(c.T, find_extent(c.T, new.b), new, pre)
                     ELSE [ok |-> FALSE, pos |-> pos, T |-> c.T]
    IN  IF append \/ prepend
        THEN [ok |-> TRUE, pos |-> pos, T |-> correct_indexes(try_to_merge(M, pos, j), pos)]
        ELSE IF n < Room(T.d) THEN Place(T, pos, new, pre)
        ELSE IF next <= EtLast /\ Len(ExtLeaf(T, q)) < Room(T.d) THEN Place(T, q, new, pre)
        ELSE placed(create_new_leaf(T, pos, new))

----------------------------------------------------------------------------
(* Splitting and conversion. Flags: z MAY_ZEROOUT, u1 and u2 MARK_UNWRIT1  *)
(* and 2, v1 and v2 DATA_VALID1 and 2. Results carry the physical blocks   *)
(* that were zeroed, and those marked written because the caller has valid *)
(* data for some of them.                                                  *)

PhysOf(p, l) == p .. p + l - 1
NoSplit(T, pos) == [ok |-> TRUE, pos |-> pos, zero |-> {}, bare |-> {}, T |-> T]
NoFlags == [z |-> FALSE, u1 |-> FALSE, u2 |-> FALSE, v1 |-> FALSE, v2 |-> FALSE]

\* r: what became of the extent that takes over at s; if it found no room, x is
\* zeroed or restored, at q
split_fixed(r, q, x, s, f) ==
    LET zeroed == IF f.v1 THEN PhysOf(x.p + (s - x.b), ExtEnd(x) - s)
                  ELSE IF f.v2 THEN PhysOf(x.p, s - x.b) ELSE PhysOf(x.p, x.l)
    IN  IF r.ok THEN NoSplit(r.T, r.pos)
        ELSE IF f.z THEN [ok |-> TRUE, pos |-> q, zero |-> zeroed, bare |-> PhysOf(x.p, x.l) \ zeroed,
                          T |-> try_to_merge(SetHere(r.T, q, [x EXCEPT !.u = FALSE]), q, q[r.T.d + 1])]
        ELSE [NoSplit(SetHere(r.T, q, x), q) EXCEPT !.ok = FALSE]

split_done(r, x, s, f) == split_fixed(r, find_extent(r.T, x.b), x, s, f)

split_here(T, pos, x, s, f, pre) ==
    LET B == [T EXCEPT !.bad = @ \/ ~Holds(x, s) \/ (~x.u /\ (f.z \/ f.u1 \/ f.u2))]
        W == SetHere(B, pos, [x EXCEPT !.u = f.u2])
        new == [b |-> s, l |-> ExtEnd(x) - s, p |-> x.p + (s - x.b), u |-> f.u2]
        cut == SetHere(B, pos, [x EXCEPT !.l = s - x.b, !.u = f.u1])
    IN  IF s = x.b
        THEN NoSplit(IF pre THEN W ELSE try_to_merge(W, pos, pos[T.d + 1]), pos)
        ELSE split_done(insert_extent(cut, pos, new, pre), x, s, f)

split_extent_at(T, pos, s, f, pre) == split_here(T, pos, Here(T, pos), s, f, pre)

\* the part of the extent from b, n blocks long at most, becomes an extent: the
\* part behind it is split off first, with result r
split_front(r, q, b, f, pre) ==
    LET u == Here(r.T, q).u
        flags == [z |-> u /\ f.z, u1 |-> u, u2 |-> u /\ f.u2, v1 |-> FALSE, v2 |-> f.v2]
    IN  IF r.ok THEN [split_extent_at(r.T, q, b, flags, pre)
                         EXCEPT !.zero = @ \cup r.zero, !.bare = @ \cup r.bare]
        ELSE r

split_behind(r, b, f, pre) == split_front(r, find_extent(r.T, b), b, f, pre)

split_extent(T, pos, b, n, f, pre) ==
    LET x == Here(T, pos)
        flags == [z |-> f.z, u1 |-> x.u, u2 |-> x.u, v1 |-> f.v2, v2 |-> FALSE]
    IN  IF b + n < ExtEnd(x)
        THEN split_behind(split_extent_at(T, pos, b + n, flags, TRUE), b, f, pre)
        ELSE split_front(NoSplit(T, pos), pos, b, f, pre)

\* EXT4_EXT_MAY_ZEROOUT: the extent is within the file
MayZero(x, b, n, eof) == ExtEnd(x) <= Max({eof, b + n})

ext_convert_to_initialized(T, pos, b, n, eof) ==
    LET e == ExtLeaf(T, pos)
        i == pos[T.d + 1]
        x == e[i]
        abuts(y, z) == ~y.u /\ ~z.u /\ ExtEnd(y) = z.b /\ y.p + y.l = z.p
        left == /\ b = x.b /\ n < x.l /\ i > 1
                /\ abuts(e[i - 1], [x EXCEPT !.u = FALSE]) /\ e[i - 1].l < EtInitMax - n
        right == /\ ~(b = x.b /\ n < x.l /\ i > 1)
                 /\ b + n = ExtEnd(x) /\ n < x.l /\ i < Len(e)
                 /\ abuts([x EXCEPT !.u = FALSE], e[i + 1]) /\ e[i + 1].l < EtInitMax - n
        rest == ExtEnd(x) - b
        maxz == IF MayZero(x, b, n, eof) THEN EtZeroout ELSE 0
        tail == maxz > 0 /\ rest > n /\ rest <= maxz
        len == IF tail THEN rest ELSE n
        head == maxz > 0 /\ rest > n /\ b - x.b + len < maxz
        r == split_extent(T, pos, IF head THEN x.b ELSE b, IF head THEN len + (b - x.b) ELSE len,
                [NoFlags EXCEPT !.z = MayZero(x, b, n, eof), !.v2 = TRUE], FALSE)
        moved(f) == NoSplit(PutLeaf(T, pos, f), pos)
    IN  IF left
        THEN moved([e EXCEPT ![i] = [b |-> @.b + n, l |-> @.l - n, p |-> @.p + n, u |-> TRUE],
                             ![i - 1].l = @ + n])
        ELSE IF right
        THEN moved([e EXCEPT ![i].l = @ - n,
                             ![i + 1] = [b |-> @.b - n, l |-> @.l + n, p |-> @.p - n, u |-> FALSE]])
        ELSE [r EXCEPT !.zero = @ \cup (IF tail THEN PhysOf(x.p + (b + n - x.b), rest - n) ELSE {})
                                  \cup (IF head THEN PhysOf(x.p, b - x.b) ELSE {})]

\* EXT4_GET_BLOCKS_CONVERT: the extent stays unwritten
split_convert_extents(T, pos, b, n, eof) ==
    split_extent(T, pos, b, n, [NoFlags EXCEPT !.z = MayZero(Here(T, pos), b, n, eof),
                                               !.u2 = TRUE, !.v2 = TRUE], TRUE)

\* the extent at b gets its new mark; r: the split that isolated it
Mark(r, b, u) ==
    LET q == find_extent(r.T, b)
    IN  IF r.ok
        THEN [r EXCEPT !.T = try_to_merge(SetHere(r.T, q, [Here(r.T, q) EXCEPT !.u = u]),
                                          q, q[r.T.d + 1])]
        ELSE r

convert_unwritten_extents_endio(T, pos, b, n, eof) ==
    LET x == Here(T, pos)
    IN  Mark(IF x.b # b \/ x.l > n THEN split_convert_extents(T, pos, b, n, eof)
             ELSE NoSplit(T, pos), b, FALSE)

convert_initialized_extent(T, pos, b, n) ==
    LET x == Here(T, pos)
    IN  Mark(IF x.b # b \/ x.l > n
             THEN split_extent(T, pos, b, n, [NoFlags EXCEPT !.v1 = TRUE], TRUE)
             ELSE NoSplit(T, pos), b, TRUE)

force_split_extent_at(T, pos, s) ==
    LET u == Here(T, pos).u
    IN  split_extent_at(T, pos, s, [NoFlags EXCEPT !.u1 = u, !.u2 = u], TRUE)

----------------------------------------------------------------------------
(* Removal.                                                                *)

\* the index at level k - 1 of the path goes, and its block
rm_idx(T, pos, k) ==
    LET n == RemoveAt(NodeAt(T.e, pos, k - 1), pos[k])
        e == PutNode(T.e, pos, k - 1, n)
    IN  [T EXCEPT !.m = @ - 1,
                  !.e = IF pos[k] = 1 /\ n # << >> THEN FixKeys(e, pos, k - 1, n[1].b) ELSE e]

\* the leaf of the path loses lo .. hi, from extent i leftwards
RECURSIVE TrimLeaf(_, _, _, _)
TrimLeaf(e, i, lo, hi) ==
    IF i = 0 \/ ExtEnd(e[i]) <= lo THEN e
    ELSE IF hi < e[i].b THEN TrimLeaf(e, i - 1, lo, hi)
    ELSE IF e[i].b < lo THEN [e EXCEPT ![i].l = lo - e[i].b]
    ELSE TrimLeaf(RemoveAt(e, i), i - 1, lo, hi)

ext_rm_leaf(T, pos, lo, hi) ==
    LET e == ExtLeaf(T, pos)
        i == IF pos[T.d + 1] < 1 THEN Len(e) ELSE pos[T.d + 1]
        f == TrimLeaf(e, i, lo, hi)
        q == [pos EXCEPT ![T.d + 1] = 1]
        U == [PutLeaf(T, pos, f) EXCEPT !.bad =
                 @ \/ \E j \in 1 .. i : e[j].b <= hi /\ ExtEnd(e[j]) > hi + 1]
        \* correct_index: the first extent was among those removed or cut
        C == IF f # << >> /\ e[1].b <= hi /\ ExtEnd(e[1]) > lo THEN correct_indexes(U, q) ELSE U
    IN  IF f = << >> /\ T.d > 0 THEN rm_idx(U, pos, T.d) ELSE C

\* the walk: pos[i + 1] is -1 before the first index of a node is taken,
\* seen[i + 1] the entries of the node before its last child was entered
RECURSIVE RmWalk(_, _, _, _, _, _)
RmWalk(T, pos, seen, i, lo, hi) ==
    LET n == NodeAt(T.e, pos, i)
        j == IF pos[i + 1] = -1 THEN Len(n) ELSE pos[i + 1] - 1
        more == j >= 1 /\ (pos[i + 1] # -1 => Len(n) # seen[i + 1])
        down == [k \in 1 .. T.d + 1 |-> IF k = i + 1 THEN j ELSE IF k > i + 1 THEN -1 ELSE pos[k]]
    IN  IF i < 0 THEN T
        ELSE IF i = T.d THEN RmWalk(ext_rm_leaf(T, pos, lo, hi), pos, seen, i - 1, lo, hi)
        ELSE IF more THEN RmWalk(T, down, [seen EXCEPT ![i + 1] = Len(n)], i + 1, lo, hi)
        ELSE RmWalk(IF n = << >> /\ i > 0 THEN rm_idx(T, pos, i) ELSE T, pos, seen, i - 1, lo, hi)

\* [ok, T]. hi = EtLast: to the end of the file (EXT_MAX_BLOCKS - 1); otherwise
\* from the leaf of hi, whose extent was split behind hi with result s
ext_remove_space(T, lo, hi) ==
    LET p == find_extent(T, hi)
        x == Here(T, p)
        unseen(U) == [k \in 1 .. U.d + 1 |-> -1]
        end(W) == [ok |-> TRUE, T |-> IF W.e = << >> THEN [W EXCEPT !.d = 0] ELSE W]
        walk(s) == IF s.ok THEN end(RmWalk(s.T, s.pos, unseen(s.T), s.T.d, lo, hi))
                   ELSE [ok |-> FALSE, T |-> s.T]
    IN  IF T.e = << >> THEN [ok |-> TRUE, T |-> T]
        ELSE IF hi = EtLast THEN end(RmWalk(T, unseen(T), unseen(T), 0, lo, hi))
        ELSE walk(IF Holds(x, hi) /\ hi + 1 < ExtEnd(x)
                  THEN force_split_extent_at(T, p, hi + 1) ELSE NoSplit(T, p))

----------------------------------------------------------------------------
(* Shifting every extent from a block on.                                  *)

\* the keys above, each by the shift, while the entry below is the first
RECURSIVE ShiftKeys(_, _, _, _)
ShiftKeys(e, pos, d, by) ==
    IF d = 0 THEN e
    ELSE [e EXCEPT ![pos[1]] = [b |-> IF \A j \in 2 .. d : pos[j] = 1 THEN @.b + by ELSE @.b,
                                k |-> ShiftKeys(@.k, Tail(pos), d - 1, by)]]

RECURSIVE ShiftLeft(_, _, _)
ShiftLeft(e, i, by) ==
    LET f == [e EXCEPT ![i].b = @ - by]
        g == IF i > 1 THEN merge_right(f, i - 1) ELSE f
    IN  IF i > Len(e) THEN e
        ELSE IF g # f THEN ShiftLeft(g, i, by) ELSE ShiftLeft(f, i + 1, by)

RECURSIVE ShiftRight(_, _, _, _)
ShiftRight(e, i, first, by) ==
    IF i < first THEN e
    ELSE ShiftRight(merge_right([e EXCEPT ![i].b = @ + by], i), i - 1, first, by)

shift_path_extents(T, pos, by, left) ==
    LET e == ExtLeaf(T, pos)
        i == pos[T.d + 1]
        U == PutLeaf(T, pos, IF left THEN ShiftLeft(e, i, by) ELSE ShiftRight(e, Len(e), i, by))
    IN  IF i = 1 THEN [U EXCEPT !.e = ShiftKeys(@, pos, T.d, IF left THEN -by ELSE by)] ELSE U

\* SHIFT_LEFT: leaf by leaf from "it"
RECURSIVE ShiftLeftFrom(_, _, _, _)
ShiftLeftFrom(T, it, stop, by) ==
    LET p == find_extent(T, it)
        e == ExtLeaf(T, p)
        i == p[T.d + 1]
        q == IF it > e[i].b THEN [p EXCEPT ![T.d + 1] = i + 1] ELSE p
    IN  IF it > stop THEN T
        ELSE IF it > e[i].b /\ i = Len(e)
        THEN ShiftLeftFrom(T, next_allocated_block(T, p), stop, by)
        ELSE ShiftLeftFrom(shift_path_extents(T, q, by, TRUE), ExtEnd(Last(e)), stop, by)

\* SHIFT_RIGHT: from the last leaf down to the one that holds "start"
RECURSIVE ShiftRightFrom(_, _, _, _)
ShiftRightFrom(T, it, start, by) ==
    LET p == find_extent(T, it)
        e == ExtLeaf(T, p)
        from == {i \in DOMAIN e : e[i].b >= start}
        U == shift_path_extents(T, [p EXCEPT ![T.d + 1] = Min(from)], by, FALSE)
    IN  IF start > it \/ from = {} THEN T
        ELSE IF e[1].b > start THEN ShiftRightFrom(U, e[1].b - 1, start, by) ELSE U

LastExt(T) == Here(T, find_extent(T, EtLast))

\* [ok, T]
shift_extents(T, start, by, left) ==
    LET p == find_extent(T, start - 1)
        x == Here(T, p)
        refused == IF left
                   THEN (start = x.b /\ by > x.b) \/ (start >= ExtEnd(x) /\ by > start - ExtEnd(x))
                   ELSE by > EtLast + 1 - ExtEnd(LastExt(T))
    IN  IF T.e = << >> THEN [ok |-> TRUE, T |-> T]
        ELSE IF refused THEN [ok |-> FALSE, T |-> T]
        ELSE [ok |-> TRUE, T |-> IF left THEN ShiftLeftFrom(T, start, LastExt(T).b, by)
                                 ELSE ShiftRightFrom(T, LastExt(T).b, start, by)]

----------------------------------------------------------------------------
(* The operations. left: metadata blocks the allocator still has for this  *)
(* one; cr: its handle can be extended by ext4_journal_extend, which only  *)
(* ext4_ext_try_to_merge_up asks for.                                      *)

Plenty == 9
Begin(left, cr) == [xtree EXCEPT !.left = left, !.cr = cr]
Settle(T) == xtree' = [T EXCEPT !.left = 0, !.cr = TRUE]
PhysFree(S) == S \cap {fmap[b].p : b \in {x \in EtBlocks : fmap[x] # EtNone}} = {}
Clear(lo, hi) == xio # EtNone => hi < xio.b \/ lo >= xio.b + xio.n

\* the map after the blocks lo .. hi became valid, and those zeroed by the
\* splits of r; others r made written blocks
Validated(lo, hi, r) ==
    [b \in EtBlocks |-> IF fmap[b] # EtNone /\ (b \in lo .. hi \/ fmap[b].p \in r.zero)
                        THEN [fmap[b] EXCEPT !.v = TRUE, !.x = FALSE]
                        ELSE IF fmap[b] # EtNone /\ ~fmap[b].v /\ fmap[b].p \in r.bare
                        THEN [fmap[b] EXCEPT !.x = TRUE] ELSE fmap[b]]

EtInit ==
    /\ xtree = [d |-> 0, e |-> << >>, m |-> 0, left |-> 0, cr |-> TRUE, bad |-> FALSE]
    /\ fmap = [b \in EtBlocks |-> EtNone]
    /\ xio = EtNone

\* ext4_ext_map_blocks of a hole. u: EXT4_GET_BLOCKS_UNWRIT_EXT; pre: with
\* EXT4_GET_BLOCKS_PRE_IO, I/O to the new blocks follows. The allocator may
\* give fewer blocks than wanted.
MapNew(b, n, off, u, pre, left, cr) ==
    LET T == Begin(left, cr)
        new == [b |-> b, l |-> n, p |-> b + off, u |-> u]
    IN  /\ \A i \in b .. b + n - 1 : fmap[i] = EtNone
        /\ n <= IF u THEN EtUnwMax ELSE EtInitMax
        /\ PhysFree(PhysOf(b + off, n))
        /\ pre => u /\ xio = EtNone
        /\ \E r \in {insert_extent(T, find_extent(T, b), new, pre)} :
              /\ Settle(r.T)
              /\ fmap' = [i \in EtBlocks |-> IF r.ok /\ i \in b .. b + n - 1
                                             THEN [p |-> i + off, v |-> ~u, x |-> FALSE]
                                             ELSE fmap[i]]
              /\ xio' = IF pre /\ r.ok THEN [b |-> b, n |-> n] ELSE xio

\* the unwritten extent that holds b, for a caller who wants n blocks
Unwritten(b) == fmap[b] # EtNone /\ Here(xtree, find_extent(xtree, b)).u
Reach(b, n) == Min({b + n, ExtEnd(Here(xtree, find_extent(xtree, b)))}) - 1

\* EXT4_GET_BLOCKS_PRE_IO: the range is split off, then written to
PreIo(b, n, eof, left) ==
    LET T == Begin(left, TRUE)
    IN  /\ xio = EtNone /\ Unwritten(b)
        /\ \E r \in {split_convert_extents(T, find_extent(T, b), b, n, eof)} :
              /\ Settle(r.T)
              /\ fmap' = Validated(1, 0, r)
              /\ xio' = IF r.ok THEN [b |-> b, n |-> Reach(b, n) - b + 1] ELSE xio

\* ext4_convert_unwritten_extents: one call of its loop, the data is on disk,
\* whether or not the extent is marked written in the end
EndIo(eof, left, cr) ==
    LET T == Begin(left, cr)
        b == xio.b
        hi == Reach(b, xio.n)
    IN  /\ xio # EtNone
        /\ \E r \in {IF Unwritten(b)
                     THEN convert_unwritten_extents_endio(T, find_extent(T, b), b, xio.n, eof)
                     ELSE NoSplit(T, << >>)} :
              /\ Settle(r.T)
              /\ fmap' = IF r.ok \/ ~Here(r.T, find_extent(r.T, b)).u
                         THEN Validated(b, hi, r) ELSE Validated(1, 0, r)
              /\ xio' = IF r.ok /\ hi < b + xio.n - 1
                        THEN [b |-> hi + 1, n |-> b + xio.n - 1 - hi] ELSE EtNone

\* a write to an unwritten extent whose blocks are initialized at once
WriteInit(b, n, eof, left, cr) ==
    LET T == Begin(left, cr)
    IN  /\ Unwritten(b) /\ Reach(b, n) = b + n - 1 /\ Clear(b, b + n - 1)
        /\ \E r \in {ext_convert_to_initialized(T, find_extent(T, b), b, n, eof)} :
              /\ Settle(r.T)
              /\ fmap' = IF r.ok THEN Validated(b, b + n - 1, r) ELSE Validated(1, 0, r)
        /\ UNCHANGED xio

\* EXT4_GET_BLOCKS_CONVERT_UNWRITTEN (FALLOC_FL_ZERO_RANGE)
MarkUnwritten(b, n, left, cr) ==
    LET T == Begin(left, cr)
        k == IF n > EtUnwMax THEN EtUnwMax \div 2 ELSE n
    IN  /\ fmap[b] # EtNone /\ ~Unwritten(b) /\ xio = EtNone
        /\ \E r \in {convert_initialized_extent(T, find_extent(T, b), b, k)} :
              /\ Settle(r.T)
              /\ fmap' = [i \in EtBlocks |-> IF r.ok /\ i \in b .. Reach(b, k)
                                             THEN [fmap[i] EXCEPT !.v = FALSE, !.x = FALSE]
                                             ELSE fmap[i]]
        /\ UNCHANGED xio

\* ext4_punch_hole, ext4_ext_truncate
PunchHole(lo, hi, left) ==
    /\ xio = EtNone
    /\ \E b \in lo .. hi : fmap[b] # EtNone
    /\ \E r \in {ext_remove_space(Begin(left, TRUE), lo, hi)} :
          /\ Settle(r.T)
          /\ fmap' = [b \in EtBlocks |-> IF r.ok /\ b \in lo .. hi THEN EtNone ELSE fmap[b]]
    /\ UNCHANGED xio

\* ext4_collapse_range; the file goes on behind hi
Collapse(lo, hi, left) ==
    LET n == hi - lo + 1
    IN  /\ xio = EtNone /\ hi < EtLast /\ xtree.e # << >>
        /\ \E r \in {ext_remove_space(Begin(left, TRUE), lo, hi)} :
              /\ Settle(IF r.ok THEN shift_extents(r.T, hi + 1, n, TRUE).T ELSE r.T)
              /\ fmap' = [b \in EtBlocks |-> IF ~r.ok \/ b < lo THEN fmap[b]
                                             ELSE IF b + n <= EtLast THEN fmap[b + n] ELSE EtNone]
        /\ UNCHANGED xio

\* ext4_insert_range; refused when the last extent would leave the file
InsertRange(b, n, left) ==
    LET T == Begin(left, TRUE)
        p == find_extent(T, b)
        x == Here(T, p)
        s == IF b > x.b /\ b < ExtEnd(x) THEN force_split_extent_at(T, p, b) ELSE NoSplit(T, p)
    IN  /\ xio = EtNone /\ xtree.e # << >>
        /\ \E r \in {IF s.ok THEN shift_extents(s.T, Max({x.b, b}), n, FALSE) ELSE s} :
              /\ Settle(r.T)
              /\ fmap' = [i \in EtBlocks |-> IF ~r.ok \/ i < b THEN fmap[i]
                                             ELSE IF i < b + n THEN EtNone ELSE fmap[i - n]]
        /\ UNCHANGED xio

\* ext4_ext_replay_update_ex: fast commit replay puts a range elsewhere
ReplayUpdate(b, n, off, u, left) ==
    LET T == Begin(left, TRUE)
        p0 == find_extent(T, b)
        x == Here(T, p0)
        front == IF x.b # b \/ x.l # n THEN force_split_extent_at(T, p0, b) ELSE NoSplit(T, p0)
        back(S, p) == IF Here(S, p).l # n THEN force_split_extent_at(S, p, b + n) ELSE NoSplit(S, p)
        split == IF front.ok THEN back(front.T, find_extent(front.T, b)) ELSE front
        put(S, p) == SetHere(S, p, [Here(S, p) EXCEPT !.u = u, !.p = b + off])
        moved(S) == put(S, find_extent(S, b))
    IN  /\ xio = EtNone /\ fmap[b] # EtNone /\ Reach(b, n) = b + n - 1
        /\ u => n <= EtUnwMax
        /\ PhysFree(PhysOf(b + off, n))
        /\ \E r \in {split} :
              /\ Settle(IF r.ok THEN moved(r.T) ELSE r.T)
              /\ fmap' = [i \in EtBlocks |-> IF r.ok /\ i \in b .. b + n - 1
                                             THEN [p |-> i + off, v |-> ~u, x |-> FALSE]
                                             ELSE fmap[i]]
        /\ UNCHANGED xio

\* ext4_ext_replay_shrink_inode: what replay left in pieces is merged
RECURSIVE ShrinkFrom(_, _)
ShrinkFrom(T, cur) ==
    LET p == find_extent(T, cur)
    IN  IF cur > EtLast THEN T
        ELSE ShrinkFrom(try_to_merge(T, p, p[T.d + 1]), Max({cur + 1, ExtEnd(Here(T, p))}))
ReplayShrink(cr) ==
    /\ xio = EtNone /\ xtree.e # << >>
    /\ Settle(ShrinkFrom(Begin(Plenty, cr), 0))
    /\ UNCHANGED <<fmap, xio>>

\* Bound: blocks and credits do not run out in one operation.
Handles == [left: {0, 1}, cr: {TRUE}] \cup [left: {Plenty}, cr: BOOLEAN]

EtNext ==
    \/ \E cr \in BOOLEAN : ReplayShrink(cr)
    \/ \E eof \in {0, EtLast + 1}, h \in Handles : EndIo(eof, h.left, h.cr)
    \/ \E b \in EtBlocks : \E n \in 1 .. EtLast + 1 - b :
          \/ \E left \in {0, 1, Plenty} :
                \/ InsertRange(b, n, left)
                \/ PunchHole(b, b + n - 1, left)
                \/ Collapse(b, b + n - 1, left)
                \/ \E eof \in {0, EtLast + 1} : PreIo(b, n, eof, left)
                \/ \E off \in EtGoals, u \in BOOLEAN : ReplayUpdate(b, n, off, u, left)
          \/ \E h \in Handles :
                \/ MarkUnwritten(b, n, h.left, h.cr)
                \/ \E eof \in {0, EtLast + 1} : WriteInit(b, n, eof, h.left, h.cr)
                \/ \E off \in EtGoals, u \in BOOLEAN, pre \in BOOLEAN :
                      MapNew(b, n, off, u, pre, h.left, h.cr)

EtSpec == EtInit /\ [][EtNext]_etVars

----------------------------------------------------------------------------

\* every extent below a node
RECURSIVE Extents(_, _)
Extents(e, d) == IF d = 0 THEN {e[i] : i \in DOMAIN e}
                 ELSE UNION {Extents(e[i].k, d - 1) : i \in DOMAIN e}
RECURSIVE Nodes(_, _)
Nodes(e, d) == IF d = 0 THEN 1
               ELSE FoldLeft(LAMBDA a, x : a + Nodes(x.k, d - 1), 1, e)

\* ext4_valid_extent_entries and __ext4_ext_check of a node and those below
\* it; key: the key the index above has for it
RECURSIVE Checked(_, _, _, _)
Checked(e, d, level, key) ==
    /\ Len(e) <= Room(level)
    /\ d > 0 => e # << >>
    /\ level > 0 => e # << >> /\ e[1].b = key
    /\ \A i \in DOMAIN e :
          /\ i > 1 => e[i].b >= IF d = 0 THEN ExtEnd(e[i - 1]) ELSE e[i - 1].b + 1
          /\ d = 0 => e[i].l \in 1 .. (IF e[i].u THEN EtUnwMax ELSE EtInitMax)
          /\ d > 0 => Checked(e[i].k, d - 1, level + 1, e[i].b)

\* The tree passes the check that reading it back applies to every node
\* (order, fill, the first key of a node equal to the key above it, lengths
\* that ee_len can encode), and no operation has run into a BUG_ON or an
\* EXT4_ERROR_INODE on the way.
TreeChecked == ~xtree.bad /\ Checked(xtree.e, xtree.d, 0, 0)

\* The tree maps each block to exactly the physical block it was given, and
\* marks it unwritten exactly as long as no data or zeros were written there
\* (while I/O to it runs, either will do), but for the blocks that a split
\* without a block for the tree marked written beside those it zeroed: splits,
\* merges, conversions and shifts lose, move or expose nothing else.
TreeIsMap ==
    LET X == Extents(xtree.e, xtree.d)
    IN  \A b \in EtBlocks :
           LET Y == {x \in X : Holds(x, b)}
           IN  IF fmap[b] = EtNone THEN Y = {}
               ELSE \E x \in Y : /\ Y = {x} /\ x.p + (b - x.b) = fmap[b].p
                                 /\ x.u = ~(fmap[b].v \/ fmap[b].x) \/ ~Clear(b, b)

\* Every metadata block of the inode is a node of the tree: none is leaked or
\* freed twice when nodes are split, merged or removed.
MetaCounted == xtree.m = Nodes(xtree.e, xtree.d) - 1

\* The neighbours that allocation and hole lookup get from the path of a block
\* are the nearest mapped blocks, across leaves and levels.
NeighboursExact ==
    \A b \in EtBlocks :
       LET p == find_extent(xtree, b)
           after == Min({x \in b + 1 .. EtLast : fmap[x] # EtNone} \cup {EtLast + 1})
       IN  fmap[b] = EtNone =>
              /\ search_left(xtree, p, b) = Max({x \in 0 .. b : fmap[x] # EtNone} \cup {-1})
              /\ search_right(xtree, p, b) = after

\* After any sequence of operations, failed ones included, the tree passes the
\* checks that are made when it is read, is the map that the operations mean,
\* has its blocks counted, and answers for the neighbours of a hole.
TreeExact == TreeChecked /\ TreeIsMap /\ MetaCounted /\ NeighboursExact
=============================================================================
