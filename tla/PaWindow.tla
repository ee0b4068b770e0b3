------------------------------ MODULE PaWindow ------------------------------
(* How far an allocation of one file reaches beyond what was asked: the    *)
(* size the request is normalised to, the window of logical blocks this    *)
(* gives, trimmed at the neighbouring extents and preallocations, the part *)
(* of it that the extent found is used for, and later allocations from it. *)
(* Blocks have 2^PwBits bytes and clusters one block; the file is mapped   *)
(* by extents. Allocations of the file run one at a time under its         *)
(* i_data_sem; another task may discard the file's windows meanwhile.      *)
EXTENDS Integers, FiniteSets, FiniteSetsExt

CONSTANTS
    PwBits,         \* s_blocksize_bits
    PwGroup,        \* s_blocks_per_group
    PwMax,          \* EXT_MAX_BLOCKS
    PwStarts,       \* logical blocks at which allocations are asked for
    PwLens,         \* lengths asked for
    PwSizes,        \* i_size, in blocks
    PwSteps         \* bound: allocations and truncates

VARIABLES
    win,        \* windows in the tree of the inode: start, length, free, deleted
    mapped,     \* blocks that have an extent
    bug,        \* a BUG_ON was reached
    psteps

pwVars == <<win, mapped, bug, psteps>>

Cells(s, n) == s .. s + n - 1
End(w) == w.ls + w.len
LiveWin == {w \in win : ~w.del}
KiB == 1024
MiB == 1024 * KiB
\* rounddown
Down(x, n) == x - (x % n)
Larger(a, b) == IF a > b THEN a ELSE b
Least(a, b) == IF a < b THEN a ELSE b

----------------------------------------------------------------------------
\* the size and the offset, in bytes, a request is normalised to
goal_size(l, n, isize) ==
    LET unit == 2^PwBits
        size == Larger(l + n, isize) * unit
        max == 2 * unit
        Small == {s \in {16 * KiB, 32 * KiB, 64 * KiB, 128 * KiB, 256 * KiB, 512 * KiB, MiB} :
                      size <= s}
        Check(req, lim, chunk) == req <= lim \/ max <= chunk
        Window(s) == [off |-> Down(l * unit, s), size |-> s]
    IN  IF Small # {} THEN [off |-> 0, size |-> Min(Small)]
        ELSE IF Check(size, 4 * MiB, 2 * KiB) THEN Window(2 * MiB)
        ELSE IF Check(size, 8 * MiB, 4 * KiB) THEN Window(4 * MiB)
        ELSE IF Check(n, (8 * MiB) \div unit, 8 * KiB) THEN Window(8 * MiB)
        ELSE [off |-> l * unit, size |-> n * unit]

\* nearest extents to the left and to the right (ext4_ext_search_left and
\* ext4_ext_search_right give lleft and lright)
Left(l) == {b \in mapped : b < l}
Right(l) == {b \in mapped : b > l}

\* ext4_mb_normalize_request does not cover the neighbouring extents
neighbours(l, s, n) ==
    LET cut == Left(l) # {} /\ s <= Max(Left(l))
        s1 == IF cut THEN Max(Left(l)) + 1 ELSE s
        n1 == n - (s1 - s)
        over == Right(l) # {} /\ s1 + n1 - 1 >= Min(Right(l))
    IN  [start |-> s1, size |-> IF over THEN Min(Right(l)) - s1 ELSE n1]

\* Mutant: the window is not cut at the preallocation that follows it.
adjust_overlap_left_only(l, s, e) ==
    LET lw == {w \in LiveWin : w.ls < l}
        le == IF lw = {} THEN 0 ELSE End(CHOOSE w \in lw : \A v \in lw : v.ls <= w.ls)
    IN  [start |-> IF lw # {} THEN Larger(s, le) ELSE s, end |-> e, bug |-> FALSE]

\* ext4_mb_pa_adjust_overlap, with its BUG_ONs
adjust_overlap(l, s, e) ==
    LET lw == {w \in LiveWin : w.ls < l}
        rw == {w \in LiveWin : w.ls >= l}
        le == End(CHOOSE w \in lw : \A v \in lw : v.ls <= w.ls)
        rs == (CHOOSE w \in rw : \A v \in rw : w.ls <= v.ls).ls
        s1 == IF lw # {} THEN Larger(s, le) ELSE s
        e1 == IF rw # {} THEN Least(e, rs) ELSE e
    IN  [start |-> s1, end |-> e1,
         bug |-> \/ lw # {} /\ le > l
                 \/ rw # {} /\ rs <= l
                 \/ \E w \in LiveWin : ~(s1 >= End(w) \/ e1 <= w.ls)]

\* ext4_mb_normalize_request
normalize_request(l, n, isize) ==
    LET g == goal_size(l, n, isize)
        s0 == Larger(g.off \div 2^PwBits, Down(l, PwGroup))
        n0 == g.size \div 2^PwBits
        n1 == IF s0 + n0 > PwMax THEN PwMax - s0 ELSE n0
        within(cut) == adjust_overlap(l, cut.start, cut.start + Least(cut.size, PwGroup))
        checked(a) == [start |-> a.start, size |-> a.end - a.start,
                       bug |-> \/ a.bug \/ a.end <= l \/ a.start > l
                               \/ a.end <= a.start \/ a.end - a.start > PwGroup]
    IN  checked(within(neighbours(l, s0, n1)))

\* ext4_mb_new_inode_pa: which part of the window an extent of len blocks
\* is used for: its end, its start, or from the block that was asked for
window_of(l, n, g, len) ==
    LET ge == g.start + g.size
        ls == IF len >= g.size THEN g.start
              ELSE IF l >= ge - len THEN ge - len
              ELSE IF l + n <= g.start + len THEN g.start
              ELSE l
    IN  [ls |-> ls, bug |-> len < g.size /\ (g.start > l \/ g.size < n \/ l < ls \/ ls + len > ge)]

----------------------------------------------------------------------------
(* ext4_mb_new_blocks for one file.                                        *)

Covers(l) == {w \in LiveWin : l \in Cells(w.ls, w.len)}
UseWindow(w, l, n) ==
    LET k == Least(End(w) - l, n)
        v == [w EXCEPT !.free = @ - k]
    IN  /\ win' = (win \ {w}) \cup (IF v.free = 0 THEN {} ELSE {v})
        /\ mapped' = mapped \cup Cells(l, k)

\* the blocks asked for lie in a hole
CanAsk(l, n) == Cells(l, n) \cap mapped = {} /\ l + n <= PwMax

\* ext4_mb_use_preallocated
FromWindow(l, n) ==
    /\ ~bug /\ psteps < PwSteps /\ CanAsk(l, n)
    /\ psteps' = psteps + 1
    /\ \E w \in Covers(l) : UseWindow(w, l, n)
    /\ UNCHANGED bug

\* EXT4_MB_STREAM_ALLOC (ext4_mb_group_or_file): the search finds len blocks
Stream(l, n, isize) ==
    /\ ~bug /\ psteps < PwSteps /\ CanAsk(l, n) /\ Covers(l) = {}
    /\ psteps' = psteps + 1
    /\ \E g \in {normalize_request(l, n, isize)} :
          IF g.bug THEN bug' = TRUE /\ UNCHANGED <<win, mapped>>
          ELSE \E len \in {1, n, n + 1, g.size \div 2, g.size - 1, g.size} \cap 1 .. g.size :
               IF len <= n
               THEN mapped' = mapped \cup Cells(l, len) /\ UNCHANGED <<win, bug>>
               ELSE LET o == window_of(l, n, g, len)
                        k == Least(o.ls + len - l, n)
                    IN  /\ bug' = (bug \/ o.bug)
                        /\ win' = win \cup {[ls |-> o.ls, len |-> len, free |-> len - k,
                                             del |-> FALSE]}
                        /\ mapped' = mapped \cup Cells(l, k)

\* EXT4_MB_HINT_NOPREALLOC or EXT4_MB_HINT_GROUP_ALLOC
NoWindow(l, n) ==
    /\ ~bug /\ psteps < PwSteps /\ CanAsk(l, n) /\ Covers(l) = {}
    /\ psteps' = psteps + 1
    /\ mapped' = mapped \cup Cells(l, n)
    /\ UNCHANGED <<win, bug>>

\* ext4_mb_discard_group_preallocations of another task: a window is marked,
\* and leaves the tree later
DiscardMark(w) ==
    /\ ~w.del
    /\ win' = (win \ {w}) \cup {[w EXCEPT !.del = TRUE]}
    /\ UNCHANGED <<mapped, bug, psteps>>
DiscardErase(w) ==
    /\ w.del
    /\ win' = win \ {w}
    /\ UNCHANGED <<mapped, bug, psteps>>

\* ext4_discard_preallocations
Dropped == {w \in win : w.del}

\* a truncate or a hole drops the windows of the file first
Punch(l, n) ==
    /\ ~bug /\ psteps < PwSteps /\ Cells(l, n) \cap mapped # {}
    /\ psteps' = psteps + 1
    /\ win' = Dropped
    /\ mapped' = mapped \ Cells(l, n)
    /\ UNCHANGED bug

PwInit == win = {} /\ mapped = {} /\ bug = FALSE /\ psteps = 0

PwNext ==
    \/ \E l \in PwStarts, n \in PwLens :
         \/ FromWindow(l, n) \/ NoWindow(l, n) \/ Punch(l, n)
         \/ \E isize \in PwSizes : Stream(l, n, isize)
    \/ \E w \in win : DiscardMark(w) \/ DiscardErase(w)

PwSpec == PwInit /\ [][PwNext]_pwVars

----------------------------------------------------------------------------
\* No sequence of allocations, discards and truncates reaches a BUG_ON of
\* the normalisation, and the live windows of a file never overlap: a block
\* belongs to at most one preallocation.
WindowsDisjoint ==
    /\ ~bug
    /\ \A v, w \in LiveWin : v # w => Cells(v.ls, v.len) \cap Cells(w.ls, w.len) = {}

\* A window has at least as many clusters left as it has blocks without an
\* extent, so one that covers a block asked for can serve it (WARN_ON_ONCE
\* of ext4_mb_use_preallocated) and never gives out more than it holds. It
\* may have more: an allocation without preallocation that begins before a
\* window is not stopped by it.
WindowServes ==
    \A w \in LiveWin : w.free > 0 /\ w.free >= Cardinality(Cells(w.ls, w.len) \ mapped)

\* The windows of a file do not overlap, and each serves what it was made for.
WindowsExact == WindowsDisjoint /\ WindowServes
=============================================================================
