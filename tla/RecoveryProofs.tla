--------------------------- MODULE RecoveryProofs ---------------------------
(***************************************************************************)
(* Garbage collection is safe for every log: a block that a lookup at an   *)
(* active version returns is never punched.  And recovery is safe across   *)
(* any number of crashes and remounts: whenever the parent is open, what   *)
(* its versions and its children read is there, and no two records share   *)
(* a block.  First the inductive invariant of Recovery and its lemmas      *)
(* about logs; then the steps of an open parent (writes, closes,           *)
(* transactions, journal commits, unmounts and crashes); then those of     *)
(* recovery itself.                                                        *)
(***************************************************************************)
EXTENDS Recovery, VersionLogProofs

\* The records name appended blocks only, and no two of them the same block.
OwnExtents(lg) ==
    /\ \A i \in DOMAIN lg : lg[i].physical_start_blk >= OrigBlocks
    /\ \A i, j \in DOMAIN lg :
          i # j => \/ RecordEnd(lg[i]) <= lg[j].physical_start_blk
                   \/ RecordEnd(lg[j]) <= lg[i].physical_start_blk

\* A log as writes and recovery leave it: in version order, within the versions
\* that can be loaded, with extents of its own.
GoodLog(lg) ==
    /\ lg \in Seq(Record)
    /\ LogSorted(lg)
    /\ \A i \in DOMAIN lg : lg[i].version_num <= MAX_VERSIONS
    /\ OwnExtents(lg)

\* Zenon is tried on every leaf; leaves with arithmetic name SMT.
USE ZenonT(30)

\* Two records with extents of their own place a block at the same physical
\* block only if they are one record and the block is one block.
LEMMA SamePlace ==
    ASSUME NEW lg, GoodLog(lg), NEW i \in DOMAIN lg, NEW j \in DOMAIN lg,
           NEW K \in Nat, NEW L \in Nat, Covers(lg[i], K), Covers(lg[j], L),
           PhysicalOf(lg[i], K) = PhysicalOf(lg[j], L)
    PROVE  i = j /\ K = L
<1>1. lg[i] \in Record /\ lg[j] \in Record
  BY SMT DEF GoodLog
<1> DEFINE a == lg[i].logical_start_blk
           b == lg[j].logical_start_blk
           p == lg[i].physical_start_blk
           q == lg[j].physical_start_blk
<1>2. a \in Nat /\ b \in Nat /\ p \in Nat /\ q \in Nat
  BY <1>1, RecordFields
<1>3. a <= K /\ b <= L /\ p + (K - a) = q + (L - b)
  BY DEF Covers, PhysicalOf
<1>4. PhysicalOf(lg[i], K) < RecordEnd(lg[i]) /\ PhysicalOf(lg[j], L) < RecordEnd(lg[j])
  BY <1>1, CoveredInside
<1>5. /\ p + (K - a) < RecordEnd(lg[i])
      /\ q + (L - b) < RecordEnd(lg[j])
      /\ RecordEnd(lg[i]) \in Nat /\ RecordEnd(lg[j]) \in Nat
  BY <1>1, <1>4, RecordFields DEF PhysicalOf
<1>6. i # j => \/ RecordEnd(lg[i]) <= q
               \/ RecordEnd(lg[j]) <= p
  BY DEF GoodLog, OwnExtents
<1>7. ASSUME i # j PROVE FALSE
  <2> DEFINE e == RecordEnd(lg[i])
             f == RecordEnd(lg[j])
  <2>1. (e <= q \/ f <= p) /\ e \in Nat /\ f \in Nat
    BY <1>5, <1>6, <1>7
  <2>2. p + (K - a) < e /\ q + (L - b) < f
    BY <1>5
  <2> HIDE DEF a, b, p, q, e, f
  <2> QED BY <1>2, <1>3, <2>1, <2>2, SMT
<1>8. i = j
  BY <1>7
<1>9. a = b /\ p = q
  BY <1>8
<1> HIDE DEF a, b, p, q
<1> QED BY <1>2, <1>3, <1>8, <1>9, SMT

\* The block that record i takes from under L: the last earlier record's, or
\* the block of the original file.
LEMMA Replaced ==
    ASSUME NEW lg, GoodLog(lg), NEW i \in DOMAIN lg, NEW K \in Nat
    PROVE  \/ PrevVersion(lg, i, K) = 0 /\ PrevBlock(lg, i, K) = K
           \/ \E j \in DOMAIN lg : /\ j < i
                                    /\ Covers(lg[j], K)
                                    /\ PrevVersion(lg, i, K) = lg[j].version_num
                                    /\ PrevBlock(lg, i, K) = PhysicalOf(lg[j], K)
<1>1. CASE Earlier(lg, i, K) = {}
  BY <1>1 DEF PrevVersion, PrevBlock
<1>2. CASE Earlier(lg, i, K) # {}
  <2> DEFINE j == Latest(Earlier(lg, i, K))
  <2>1. DOMAIN lg = 1..Len(lg) /\ Len(lg) \in Nat
    BY SMT DEF GoodLog
  <2>2. i - 1 \in Nat /\ Earlier(lg, i, K) \subseteq 1..(i - 1)
    BY <2>1, SMT DEF Earlier
  <2>3. j \in Earlier(lg, i, K)
    BY <1>2, <2>2, LatestPosition
  <2>4. PrevVersion(lg, i, K) = lg[j].version_num
        /\ PrevBlock(lg, i, K) = PhysicalOf(lg[j], K)
    BY <1>2 DEF PrevVersion, PrevBlock
  <2> HIDE DEF j
  <2>5. j \in 1..(i - 1) /\ Covers(lg[j], K)
    BY <2>3 DEF Earlier
  <2>6. j \in DOMAIN lg /\ j < i
    BY <2>1, <2>5, SMT
  <2> QED BY <2>4, <2>5, <2>6
<1> QED BY <1>1, <1>2

\* A lookup that hits a record returns the place in the last record, of the
\* newest version up to ver, that covers the block.
LEMMA LookupLatest ==
    ASSUME NEW lg, GoodLog(lg), NEW ver \in Nat, NEW L \in Nat,
           HitVersions(lg, ver, L) # {}
    PROVE  \E m \in DOMAIN lg :
              /\ Covers(lg[m], L)
              /\ lg[m].version_num <= ver
              /\ Lookup(lg, ver, L) = PhysicalOf(lg[m], L)
              /\ \A i \in DOMAIN lg :
                    Covers(lg[i], L) /\ lg[i].version_num <= ver => i <= m
<1> DEFINE w == Latest(HitVersions(lg, ver, L))
           m == Latest(DeltaHits(lg, w, L))
<1>0. lg \in Seq(Record) /\ DOMAIN lg = 1..Len(lg) /\ Len(lg) \in Nat
  BY SMT DEF GoodLog
<1>1. w \in HitVersions(lg, ver, L) /\ \A y \in HitVersions(lg, ver, L) : w >= y
  <2>1. HitVersions(lg, ver, L) \subseteq 1..ver
    BY DEF HitVersions
  <2> QED BY <2>1, LatestPosition
<1>2. w \in 1..ver /\ DeltaHits(lg, w, L) # {}
  BY <1>1 DEF HitVersions, InDelta
<1>3. m \in DeltaHits(lg, w, L) /\ \A y \in DeltaHits(lg, w, L) : m >= y
  <2>1. DeltaHits(lg, w, L) \subseteq 1..Len(lg)
    BY <1>0 DEF DeltaHits
  <2> QED BY <1>0, <1>2, <2>1, LatestPosition
<1>4. Lookup(lg, ver, L) = PhysicalOf(lg[m], L)
  BY DEF Lookup, DeltaAt
<1> HIDE DEF w, m
<1>5. m \in DOMAIN lg /\ Covers(lg[m], L) /\ lg[m].version_num = w
  BY <1>3 DEF DeltaHits
<1>6. ASSUME NEW i \in DOMAIN lg, Covers(lg[i], L), lg[i].version_num <= ver
      PROVE  i <= m
  <2> DEFINE v == lg[i].version_num
  <2>1. v \in 1..ver /\ v <= MAX_VERSIONS
    <3>1. lg[i] \in Record
      BY <1>0, <1>6, SMT
    <3> QED BY <3>1, <1>6, SMT DEF Record, GoodLog
  <2>2. i \in DeltaHits(lg, v, L)
    BY <1>6 DEF DeltaHits
  <2>3. v \in HitVersions(lg, ver, L)
    BY <2>1, <2>2 DEF HitVersions, InDelta
  <2>4. w >= v
    BY <1>1, <2>3
  <2>5. CASE v = w
    BY <1>0, <1>3, <1>5, <1>6, <2>2, <2>5
  <2>6. CASE v # w
    <3>1. ~ (lg[m].version_num <= lg[i].version_num)
      BY <1>2, <1>5, <2>1, <2>4, <2>6, SMT
    <3>2. ~ (m <= i)
      BY <1>5, <1>6, <3>1 DEF GoodLog, LogSorted
    <3> QED BY <1>0, <1>5, <1>6, <3>2, SMT
  <2> QED BY <2>5, <2>6
<1> QED BY <1>2, <1>4, <1>5, <1>6, SMT

\* scorw_gc_blocks never marks a block that a reader of an active version would
\* be sent to, whatever the log, the active versions and the block: the code's
\* claim that the readers of p_prev are exactly the versions from v_prev up to
\* the one before the record that replaces it.
THEOREM GcSparesActive ==
    ASSUME NEW lg, GoodLog(lg), NEW active, active \subseteq Nat, 0 \in active,
           NEW a \in active, NEW L \in Nat
    PROVE  Lookup(lg, a, L) \notin Garbage(lg, active)
<1> SUFFICES ASSUME Lookup(lg, a, L) \in Garbage(lg, active) PROVE FALSE
  OBVIOUS
<1>0. lg \in Seq(Record) /\ DOMAIN lg = 1..Len(lg) /\ Len(lg) \in Nat
  BY SMT DEF GoodLog
<1>a. PICK i \in DOMAIN lg : \E K \in Replaces(lg, i) :
         Lookup(lg, a, L) = PrevBlock(lg, i, K) /\ Unused(lg, active, i, K)
  BY DEF Garbage
<1>1. PICK K \in Replaces(lg, i) :
         Lookup(lg, a, L) = PrevBlock(lg, i, K) /\ Unused(lg, active, i, K)
  BY <1>a
<1>2. lg[i] \in Record /\ K \in Nat /\ Covers(lg[i], K)
  <2>1. lg[i] \in Record
    BY <1>0, SMT
  <2>2. K \in CoveredBlocks(lg[i])
    BY DEF Replaces
  <2> QED BY <2>1, <2>2, RecordFields, SMT DEF CoveredBlocks, Covers
<1>3. lg[i].version_num \in Nat /\ lg[i].version_num > 0
  BY <1>2, SMT DEF Record
<1>4. ~ (PrevVersion(lg, i, K) = 0)
  BY <1>1, <1>3, SMT DEF Unused
<1>5. PICK j \in DOMAIN lg : /\ j < i
                              /\ Covers(lg[j], K)
                              /\ PrevVersion(lg, i, K) = lg[j].version_num
                              /\ PrevBlock(lg, i, K) = PhysicalOf(lg[j], K)
  BY <1>2, <1>4, Replaced
<1>6. CASE HitVersions(lg, a, L) = {}
  <2>1. lg[j] \in Record
    BY <1>0, <1>5, SMT
  <2>2. PhysicalOf(lg[j], K) >= OrigBlocks
    <3> DEFINE s == lg[j].logical_start_blk
               p == lg[j].physical_start_blk
    <3>1. s \in Nat /\ p \in Nat /\ s <= K /\ p >= OrigBlocks
      BY <1>5, <2>1, RecordFields DEF Covers, GoodLog, OwnExtents
    <3>2. PhysicalOf(lg[j], K) = p + (K - s)
      BY DEF PhysicalOf
    <3> HIDE DEF s, p
    <3> QED BY <1>2, <3>1, <3>2, LogAssumption, SMT
  <2>3. PhysicalOf(lg[j], K) \in Nat
    BY <1>2, <1>5, <2>1, CoveredInside
  <2>4. \/ Lookup(lg, a, L) = L /\ L < OrigBlocks
        \/ Lookup(lg, a, L) = -1
    BY <1>6 DEF Lookup, BLK_NOT_FOUND
  <2> QED BY <1>1, <1>5, <2>2, <2>3, <2>4, LogAssumption, SMT
<1>7. CASE HitVersions(lg, a, L) # {}
  <2>1. PICK m \in DOMAIN lg :
           /\ Covers(lg[m], L)
           /\ lg[m].version_num <= a
           /\ Lookup(lg, a, L) = PhysicalOf(lg[m], L)
           /\ \A k \in DOMAIN lg :
                 Covers(lg[k], L) /\ lg[k].version_num <= a => k <= m
    BY <1>7, LookupLatest
  <2>2. j = m /\ K = L
    BY ZenonT(60), SMTT(60), <1>1, <1>2, <1>5, <2>1, SamePlace
  <2>3. a >= lg[i].version_num
    BY <1>1, <1>5, <2>1, <2>2, ZenonT(60), SMTT(60) DEF Unused
  <2>4. i <= m
    BY <1>2, <1>3, <2>1, <2>2, <2>3
  <2> QED BY <1>0, <1>5, <2>2, <2>4, SMT
<1> QED BY <1>6, <1>7

-----------------------------------------------------------------------------
(* The inductive invariant of recovery.  Everything is said of the first n *)
(* records of a log, so that the log in memory, its pages on disk and what *)
(* the next mount will read can be compared record by record.              *)

\* The first n records are in version order, within the versions that can be
\* loaded, and each lies behind the ones before it.
Ordered(lg, n) ==
    \A i \in 1..n :
        /\ lg[i] \in Record
        /\ lg[i].version_num \in 2..MAX_VERSIONS
        /\ lg[i].physical_start_blk >= OrigBlocks
        /\ \A j \in 1..(i - 1) : /\ lg[j].version_num <= lg[i].version_num
                                 /\ RecordEnd(lg[j]) <= lg[i].physical_start_blk

\* Among the first n records, record i is the one that decides where version v
\* has block L.
Newest(lg, n, v, i, L) ==
    /\ i \in 1..n
    /\ Covers(lg[i], L) /\ lg[i].version_num <= v
    /\ \A j \in 1..n : Covers(lg[j], L) /\ lg[j].version_num <= v => j <= i

\* A recovery has kept the first q records, of versions up to base: the last of
\* them is inside a parent of that many blocks, and the blocks that base, any
\* later version or a version of vs reads from them are in ms.
Kept(lg, q, base, ms, blocks, vs) ==
    /\ \A i \in 1..q : lg[i].version_num <= base
    /\ q > 0 => lg[q].physical_start_blk \in ms /\ RecordEnd(lg[q]) <= blocks
    /\ \A v \in Nat, L \in Nat, i \in 1..q :
          (v >= base \/ v \in vs) /\ Newest(lg, q, v, i, L) => PhysicalOf(lg[i], L) \in ms

ChildVersions(xattr) == {xattr[c] : c \in Children}

\* What recovery needs of the metadata d and the pages lg of a log: q records
\* were kept before and are intact, later ones are of later versions, and where
\* one of them has its first block, it and all between are complete.
Image(d, lg, q, base) ==
    /\ q \in 0..d.logDiskSize /\ d.logDiskSize <= Len(lg)
    /\ base \in Nat \ {0} /\ base <= d.curr_version
    /\ Ordered(lg, d.logDiskSize)
    /\ Kept(lg, q, base, d.mapped, d.diskSize, ChildVersions(d.childXattr))
    /\ \A i \in (q + 1)..d.logDiskSize : lg[i].version_num > base
    /\ \A k \in (q + 1)..d.logDiskSize :
          lg[k].physical_start_blk \in d.mapped =>
             \A i \in (q + 1)..k : Extent(lg[i]) \subseteq d.mapped

MetadataOK(d) ==
    /\ d.curr_version \in Nat \ {0}
    /\ d.childXattr \in [Children -> Nat]
    /\ d.logDiskSize \in Nat
    /\ d.diskSize \in Nat /\ d.diskSize >= OrigBlocks
    /\ d.mapped \subseteq OrigBlocks..(d.diskSize - 1)

RecTypes ==
    /\ phase \in {"open", "truncate", "rollback", "trim", "gc"}
    /\ version \in Nat \ {0}
    /\ log \in Seq(Record) /\ pages \in Seq(Record)
    /\ Len(log) <= logDiskSize
    /\ size \in Nat /\ diskSize <= size
    /\ dirty \subseteq OrigBlocks..(size - 1)
    /\ MetadataOK(Metadata) /\ MetadataOK(disk)

\* The log is what the last mount read, or a part of it that recovery has left.
AsMounted == phase # "open" \/ Len(log) < logDiskSize

\* Nothing was written since: disk and pages still hold the log of the mount.
MountInv ==
    AsMounted =>
        /\ AsOnDisk(Len(log))
        /\ logDiskSize <= Len(pages) /\ disk.logDiskSize = logDiskSize
        /\ dirty = {}

\* The pages go on behind the log, with records that a cut has left there, and
\* the next mount would read them.
CutRemains ==
    /\ AsOnDisk(Len(log))
    /\ disk.logDiskSize <= Len(pages)
    /\ AsMounted \/ Len(log) < disk.logDiskSize

DiskInv == CutRemains => \E q \in Nat, base \in Nat : Image(disk, pages, q, base)

\* Between mount and open.
Recovering(q, base) ==
    /\ Image(Metadata, pages, q, base)
    /\ q <= Len(log)
    /\ version = curr_version /\ curr_version <= disk.curr_version
    /\ childXattr = disk.childXattr
    /\ size = diskSize /\ diskSize <= disk.diskSize
    /\ mapped \subseteq disk.mapped
    /\ phase = "truncate" => Len(log) = logDiskSize /\ rollback_version = 0
    /\ phase # "truncate" =>
          /\ \A i \in 1..Len(log) : log[i].version_num <= version
          /\ \A i \in (Len(log) + 1)..logDiskSize : pages[i].version_num > version
    /\ phase = "rollback" =>
          /\ valid_log_end \in q..Len(log)
          /\ \/ rollback_version = 0 /\ valid_log_end = Len(log)
             \/ /\ rollback_version \in (base + 1)..version
                /\ \A i \in (valid_log_end + 1)..Len(log) :
                      log[i].version_num >= rollback_version
    /\ phase = "trim" => expected_end = ExpectedEnd(log)
    /\ phase \in {"trim", "gc"} =>
          \A i \in (q + 1)..Len(log) : Extent(log[i]) \subseteq mapped

\* While the parent is open.
Opened(q, base) ==
    /\ q \in 0..Len(log) /\ q <= disk.logDiskSize
    /\ base \in Nat \ {0} /\ base <= curr_version /\ base <= disk.curr_version
    /\ curr_version <= version
    /\ Ordered(log, Len(log))
    /\ \A i \in 1..Len(log) : /\ log[i].version_num <= version + 1
                              /\ RecordEnd(log[i]) <= size
    /\ \A i \in (q + 1)..Len(log) : /\ log[i].version_num > base
                                    /\ Extent(log[i]) \subseteq mapped \cup dirty
    /\ Kept(log, q, base, mapped, diskSize, ChildVersions(childXattr))
    /\ Kept(log, q, base, mapped, diskSize, ChildVersions(disk.childXattr))
    /\ Kept(log, q, base, disk.mapped, disk.diskSize, ChildVersions(disk.childXattr))
    /\ Len(log) < logDiskSize => q = Len(log) /\ Image(Metadata, pages, q, base)

RecInv ==
    /\ RecTypes /\ MountInv /\ DiskInv
    /\ phase # "open" => \E q \in Nat, base \in Nat : Recovering(q, base)
    /\ phase = "open" => \E q \in Nat, base \in Nat : Opened(q, base)

-----------------------------------------------------------------------------
(* About records and the first records of a log.                           *)

\* The extent of a record goes from its first block to before its end, and has
\* every block that the record places.
LEMMA ExtentFacts ==
    ASSUME NEW rec \in Record
    PROVE  /\ rec.physical_start_blk \in Extent(rec)
           /\ rec.physical_start_blk < RecordEnd(rec)
           /\ \A b \in Extent(rec) : /\ b \in Int
                                     /\ rec.physical_start_blk <= b
                                     /\ b < RecordEnd(rec)
           /\ \A L \in Nat : Covers(rec, L) => PhysicalOf(rec, L) \in Extent(rec)
<1> DEFINE a == rec.logical_start_blk
           b == rec.physical_start_blk
           n == rec.len_blks
<1>1. a \in Nat /\ b \in Nat /\ n \in Nat /\ n > 0
  BY RecordFields
<1>2. RecordEnd(rec) = b + n
  BY DEF RecordEnd
<1>3. Extent(rec) = b..(RecordEnd(rec) - 1)
  BY DEF Extent
<1>4. \A L \in Nat : Covers(rec, L) => a <= L /\ L < a + n
  BY DEF Covers
<1>5. \A L : PhysicalOf(rec, L) = b + (L - a)
  BY DEF PhysicalOf
<1> HIDE DEF a, b, n
<1>6. b \in Extent(rec) /\ b < RecordEnd(rec)
  BY <1>1, <1>2, <1>3, SMT
<1>7. \A x \in Extent(rec) : x \in Int /\ b <= x /\ x < RecordEnd(rec)
  BY <1>1, <1>2, <1>3, SMT
<1>8. \A L \in Nat : Covers(rec, L) => PhysicalOf(rec, L) \in Extent(rec)
  BY <1>1, <1>2, <1>4, <1>5, <1>3, SMT
<1> QED BY <1>6, <1>7, <1>8 DEF b

\* A block below m is below n.
LEMMA RangeGrows ==
    ASSUME NEW a \in Nat, NEW m \in Nat, NEW n \in Nat, m <= n, NEW b \in a..(m - 1)
    PROVE  b \in a..(n - 1)
  BY SMT

\* The first n records of a log.
LEMMA FirstRecords ==
    ASSUME NEW lg \in Seq(Record), NEW n \in 0..Len(lg)
    PROVE  /\ SubSeq(lg, 1, n) \in Seq(Record)
           /\ Len(SubSeq(lg, 1, n)) = n
           /\ \A i \in 1..n : SubSeq(lg, 1, n)[i] = lg[i]
  BY SMT

\* In an ordered log a record has a number for each field.
LEMMA OrderedFields ==
    ASSUME NEW lg, NEW n \in Nat, Ordered(lg, n), NEW i \in 1..n
    PROVE  /\ lg[i] \in Record
           /\ lg[i].version_num \in Nat /\ lg[i].version_num > 1
           /\ lg[i].version_num <= MAX_VERSIONS
           /\ lg[i].physical_start_blk \in Nat /\ lg[i].physical_start_blk >= OrigBlocks
           /\ RecordEnd(lg[i]) \in Nat
<1>1. /\ lg[i] \in Record /\ lg[i].version_num \in 2..MAX_VERSIONS
      /\ lg[i].physical_start_blk >= OrigBlocks
  BY DEF Ordered
<1> QED BY <1>1, RecordFields, LogAssumption, SMT

\* Two records of an ordered log.
LEMMA OrderedPair ==
    ASSUME NEW lg, NEW n \in Nat, Ordered(lg, n), NEW i \in 1..n, NEW j \in 1..n, j < i
    PROVE  /\ lg[j].version_num <= lg[i].version_num
           /\ RecordEnd(lg[j]) <= lg[i].physical_start_blk
           /\ RecordEnd(lg[j]) <= RecordEnd(lg[i])
<1>1. j \in 1..(i - 1)
  BY SMT
<1>2. /\ lg[j].version_num <= lg[i].version_num
      /\ RecordEnd(lg[j]) <= lg[i].physical_start_blk
  BY <1>1 DEF Ordered
<1>3. lg[i].physical_start_blk < RecordEnd(lg[i]) /\ lg[i].physical_start_blk \in Nat
  BY OrderedFields, ExtentFacts
<1>4. RecordEnd(lg[j]) \in Nat /\ RecordEnd(lg[i]) \in Nat
  BY OrderedFields
<1> QED BY <1>2, <1>3, <1>4, SMT

\* Order passes to a log that has the same first records.
LEMMA OrderedSame ==
    ASSUME NEW lg, NEW n \in Nat, Ordered(lg, n), NEW other, NEW m \in 0..n,
           \A i \in 1..m : other[i] = lg[i]
    PROVE  Ordered(other, m)
<1>1. ASSUME NEW i \in 1..m
      PROVE  /\ other[i] \in Record /\ other[i].version_num \in 2..MAX_VERSIONS
             /\ other[i].physical_start_blk >= OrigBlocks
             /\ \A j \in 1..(i - 1) : /\ other[j].version_num <= other[i].version_num
                                      /\ RecordEnd(other[j]) <= other[i].physical_start_blk
  <2>1. i \in 1..n /\ other[i] = lg[i]
    BY SMT
  <2>2. \A j \in 1..(i - 1) : j \in 1..m /\ other[j] = lg[j]
    BY SMT
  <2> QED BY <2>1, <2>2 DEF Ordered
<1> QED BY <1>1 DEF Ordered

\* An ordered log is one the garbage collector and the lookup rely on.
LEMMA OrderedGood ==
    ASSUME NEW lg \in Seq(Record), Ordered(lg, Len(lg))
    PROVE  GoodLog(lg)
<1>1. DOMAIN lg = 1..Len(lg) /\ Len(lg) \in Nat
  BY SMT
<1>2. \A i \in DOMAIN lg : /\ lg[i].version_num \in Nat /\ lg[i].version_num <= MAX_VERSIONS
                           /\ lg[i].physical_start_blk >= OrigBlocks
  BY <1>1, OrderedFields
<1>3. ASSUME NEW i \in DOMAIN lg, NEW j \in DOMAIN lg, j < i
      PROVE  /\ lg[j].version_num <= lg[i].version_num
             /\ RecordEnd(lg[j]) <= lg[i].physical_start_blk
  BY <1>1, <1>3, OrderedPair
<1>4. LogSorted(lg)
  <2>1. ASSUME NEW i \in DOMAIN lg, NEW j \in DOMAIN lg, i <= j
        PROVE  lg[i].version_num <= lg[j].version_num
    <3>1. CASE i = j
      BY <1>2, <3>1, SMT
    <3>2. CASE i # j
      BY <1>1, <1>3, <2>1, <3>2, SMT
    <3> QED BY <3>1, <3>2
  <2> QED BY <2>1 DEF LogSorted
<1>5. OwnExtents(lg)
  BY <1>1, <1>2, <1>3, SMT DEF OwnExtents
<1> QED BY <1>2, <1>4, <1>5 DEF GoodLog

-----------------------------------------------------------------------------
(* Which record decides.                                                   *)

\* Newest looks at the first n records only.
LEMMA NewestSame ==
    ASSUME NEW lg, NEW n \in Nat, NEW other, \A i \in 1..n : other[i] = lg[i],
           NEW v, NEW i, NEW L, Newest(other, n, v, i, L)
    PROVE  Newest(lg, n, v, i, L)
  BY DEF Newest

\* A record that decides among more records decides among fewer.
LEMMA NewestPrefix ==
    ASSUME NEW lg, NEW n \in Nat, NEW q \in 0..n, NEW v, NEW L, NEW i \in 1..q,
           Newest(lg, n, v, i, L)
    PROVE  Newest(lg, q, v, i, L)
<1>1. \A j \in 1..q : j \in 1..n
  BY SMT
<1> QED BY <1>1 DEF Newest

\* Where the lookup of a version ends is the place of the record that decides.
LEMMA NewestLookup ==
    ASSUME NEW lg, GoodLog(lg), NEW v \in Nat, NEW L \in Nat, NEW i,
           Newest(lg, Len(lg), v, i, L)
    PROVE  Lookup(lg, v, L) = PhysicalOf(lg[i], L)
<1>1. lg \in Seq(Record) /\ DOMAIN lg = 1..Len(lg) /\ Len(lg) \in Nat
  BY SMT DEF GoodLog
<1>2. i \in DOMAIN lg /\ Covers(lg[i], L) /\ lg[i].version_num <= v
  BY <1>1 DEF Newest
<1>3. HitVersions(lg, v, L) # {}
  <2> DEFINE w == lg[i].version_num
  <2>1. lg[i] \in Record
    BY <1>1, <1>2, SMT
  <2>2. w \in 1..v /\ w <= MAX_VERSIONS
    BY <1>2, <2>1, SMT DEF Record, GoodLog
  <2>3. i \in DeltaHits(lg, w, L)
    BY <1>2 DEF DeltaHits
  <2>4. w \in HitVersions(lg, v, L)
    BY <2>2, <2>3 DEF HitVersions, InDelta
  <2> QED BY <2>4
<1>4. PICK m \in DOMAIN lg :
         /\ Covers(lg[m], L) /\ lg[m].version_num <= v
         /\ Lookup(lg, v, L) = PhysicalOf(lg[m], L)
         /\ \A k \in DOMAIN lg : Covers(lg[k], L) /\ lg[k].version_num <= v => k <= m
  BY <1>3, LookupLatest
<1>5. i <= m
  BY <1>2, <1>4
<1>6. m <= i
  BY <1>1, <1>4 DEF Newest
<1>7. i = m
  BY <1>1, <1>2, <1>5, <1>6, SMT
<1> QED BY <1>4, <1>7

\* A lookup that finds an appended block finds it in the record that decides.
LEMMA LookupNewest ==
    ASSUME NEW lg, GoodLog(lg), NEW v \in Nat, NEW L \in Nat,
           Lookup(lg, v, L) >= OrigBlocks
    PROVE  \E i \in DOMAIN lg : /\ Newest(lg, Len(lg), v, i, L)
                                /\ Lookup(lg, v, L) = PhysicalOf(lg[i], L)
<1>1. DOMAIN lg = 1..Len(lg) /\ Len(lg) \in Nat
  BY SMT DEF GoodLog
<1>2. HitVersions(lg, v, L) # {}
  <2> SUFFICES ASSUME HitVersions(lg, v, L) = {} PROVE FALSE
    OBVIOUS
  <2>1. \/ Lookup(lg, v, L) = L /\ L < OrigBlocks
        \/ Lookup(lg, v, L) = -1
    BY DEF Lookup, BLK_NOT_FOUND
  <2> QED BY <2>1, LogAssumption, SMT
<1>3. PICK m \in DOMAIN lg :
         /\ Covers(lg[m], L) /\ lg[m].version_num <= v
         /\ Lookup(lg, v, L) = PhysicalOf(lg[m], L)
         /\ \A k \in DOMAIN lg : Covers(lg[k], L) /\ lg[k].version_num <= v => k <= m
  BY <1>2, LookupLatest
<1>4. Newest(lg, Len(lg), v, m, L)
  BY <1>1, <1>3 DEF Newest
<1> QED BY <1>3, <1>4

\* A block that is punched belongs to a record that a later one has replaced.
LEMMA GarbageOwned ==
    ASSUME NEW lg, GoodLog(lg), NEW active, 0 \in active, NEW b \in Garbage(lg, active)
    PROVE  \E i \in DOMAIN lg, j \in DOMAIN lg :
              j < i /\ b \in Extent(lg[j])
<1>0. lg \in Seq(Record) /\ DOMAIN lg = 1..Len(lg) /\ Len(lg) \in Nat
  BY SMT DEF GoodLog
<1>1. PICK i \in DOMAIN lg : \E K \in Replaces(lg, i) :
         b = PrevBlock(lg, i, K) /\ Unused(lg, active, i, K)
  BY DEF Garbage
<1>2. PICK K \in Replaces(lg, i) : b = PrevBlock(lg, i, K) /\ Unused(lg, active, i, K)
  BY <1>1
<1>3. lg[i] \in Record
  BY <1>0, SMT
<1>4. K \in Nat
  <2>1. K \in CoveredBlocks(lg[i])
    BY DEF Replaces
  <2> QED BY <1>3, <2>1, RecordFields, SMT DEF CoveredBlocks
<1>5. lg[i].version_num \in Nat /\ lg[i].version_num > 0
  BY <1>3, SMT DEF Record
<1>6. ~ (PrevVersion(lg, i, K) = 0)
  BY <1>2, <1>5, SMT DEF Unused
<1>7. PICK j \in DOMAIN lg : j < i /\ Covers(lg[j], K) /\ PrevBlock(lg, i, K) = PhysicalOf(lg[j], K)
  BY <1>4, <1>6, Replaced
<1>8. lg[j] \in Record
  BY <1>0, SMT
<1>9. b \in Extent(lg[j])
  BY <1>2, <1>4, <1>7, <1>8, ExtentFacts
<1> QED BY <1>7, <1>9

-----------------------------------------------------------------------------
(* What is kept stays kept.                                                *)

\* Kept looks at the first q records only.
LEMMA KeptSame ==
    ASSUME NEW lg, NEW q \in Nat, NEW base, NEW ms, NEW blocks, NEW vs,
           Kept(lg, q, base, ms, blocks, vs),
           NEW other, \A i \in 1..q : other[i] = lg[i]
    PROVE  Kept(other, q, base, ms, blocks, vs)
<1>1. \A i \in 1..q : other[i].version_num <= base
  BY DEF Kept
<1>2. q > 0 => other[q].physical_start_blk \in ms /\ RecordEnd(other[q]) <= blocks
  <2>1. q > 0 => other[q] = lg[q]
    BY SMT
  <2> QED BY <2>1 DEF Kept
<1>3. ASSUME NEW v \in Nat, NEW L \in Nat, NEW i \in 1..q,
             v >= base \/ v \in vs, Newest(other, q, v, i, L)
      PROVE  PhysicalOf(other[i], L) \in ms
  <2>1. Newest(lg, q, v, i, L)
    BY <1>3, NewestSame
  <2>2. PhysicalOf(lg[i], L) \in ms
    BY <1>3, <2>1 DEF Kept
  <2> QED BY <2>2
<1> QED BY <1>1, <1>2, <1>3 DEF Kept

\* More extents and a longer parent lose nothing, and neither do children that
\* move to a version from base on.
LEMMA KeptGrows ==
    ASSUME NEW lg, NEW q \in Nat, NEW base, NEW ms, NEW blocks \in Nat, NEW vs,
           Kept(lg, q, base, ms, blocks, vs), Ordered(lg, q),
           NEW more, ms \subseteq more, NEW longer \in Nat, blocks <= longer,
           NEW others, \A v \in others : v \in vs \/ v >= base
    PROVE  Kept(lg, q, base, more, longer, others)
<1>1. \A i \in 1..q : lg[i].version_num <= base
  BY DEF Kept
<1>2. ASSUME q > 0 PROVE lg[q].physical_start_blk \in more /\ RecordEnd(lg[q]) <= longer
  <2>1. lg[q].physical_start_blk \in ms /\ RecordEnd(lg[q]) <= blocks
    BY <1>2 DEF Kept
  <2>2. q \in 1..q
    BY <1>2, SMT
  <2>3. RecordEnd(lg[q]) \in Nat
    BY <2>2, OrderedFields
  <2> QED BY <2>1, <2>3, SMT
<1>3. ASSUME NEW v \in Nat, NEW L \in Nat, NEW i \in 1..q,
             v >= base \/ v \in others, Newest(lg, q, v, i, L)
      PROVE  PhysicalOf(lg[i], L) \in more
  <2>1. v >= base \/ v \in vs
    BY <1>3
  <2>2. PhysicalOf(lg[i], L) \in ms
    BY <1>3, <2>1 DEF Kept
  <2> QED BY <2>2
<1> QED BY <1>1, <1>2, <1>3 DEF Kept

\* The metadata of a longer parent, of a later version from base on, or with
\* children at such a version, does as well.
LEMMA ImageGrows ==
    ASSUME NEW d, MetadataOK(d), NEW e, MetadataOK(e), NEW lg, NEW q, NEW base,
           Image(d, lg, q, base),
           e.logDiskSize = d.logDiskSize, e.mapped = d.mapped,
           d.diskSize <= e.diskSize, base <= e.curr_version,
           \A v \in ChildVersions(e.childXattr) : v \in ChildVersions(d.childXattr) \/ v >= base
    PROVE  Image(e, lg, q, base)
<1> DEFINE n == d.logDiskSize
<1>1. q \in 0..n /\ n <= Len(lg) /\ base \in Nat \ {0} /\ Ordered(lg, n) /\ n \in Nat
  BY DEF Image, MetadataOK
<1>2. Kept(lg, q, base, e.mapped, e.diskSize, ChildVersions(e.childXattr))
  <2>1. Kept(lg, q, base, d.mapped, d.diskSize, ChildVersions(d.childXattr))
    BY DEF Image
  <2>2. Ordered(lg, q) /\ q \in Nat
    BY <1>1, OrderedSame, SMT
  <2>3. d.diskSize \in Nat /\ e.diskSize \in Nat
    BY DEF MetadataOK
  <2> QED BY <2>1, <2>2, <2>3, KeptGrows
<1>3. /\ \A i \in (q + 1)..n : lg[i].version_num > base
      /\ \A k \in (q + 1)..n :
            lg[k].physical_start_blk \in e.mapped =>
               \A i \in (q + 1)..k : Extent(lg[i]) \subseteq e.mapped
  BY DEF Image
<1> QED BY <1>1, <1>2, <1>3 DEF Image

-----------------------------------------------------------------------------
(* The steps of Next keep the invariant, one lemma for each.               *)

\* The types of what the metadata in memory consists of.
LEMMA TypeFacts ==
    ASSUME RecTypes
    PROVE  /\ curr_version \in Nat \ {0} /\ childXattr \in [Children -> Nat]
           /\ logDiskSize \in Nat /\ diskSize \in Nat /\ diskSize >= OrigBlocks
           /\ mapped \subseteq OrigBlocks..(diskSize - 1)
           /\ log \in Seq(Record) /\ Len(log) \in Nat /\ Len(log) <= logDiskSize
           /\ pages \in Seq(Record) /\ Len(pages) \in Nat
           /\ size \in Nat /\ diskSize <= size /\ dirty \subseteq OrigBlocks..(size - 1)
           /\ version \in Nat \ {0}
           /\ disk.logDiskSize \in Nat /\ disk.curr_version \in Nat \ {0}
           /\ disk.diskSize \in Nat
<1>1. /\ curr_version \in Nat \ {0} /\ childXattr \in [Children -> Nat]
      /\ logDiskSize \in Nat /\ diskSize \in Nat /\ diskSize >= OrigBlocks
      /\ mapped \subseteq OrigBlocks..(diskSize - 1)
  BY DEF RecTypes, MetadataOK, Metadata, MetadataWith
<1>2. disk.logDiskSize \in Nat /\ disk.curr_version \in Nat \ {0} /\ disk.diskSize \in Nat
  BY DEF RecTypes, MetadataOK
<1>3. /\ log \in Seq(Record) /\ Len(log) <= logDiskSize /\ pages \in Seq(Record)
      /\ size \in Nat /\ diskSize <= size /\ dirty \subseteq OrigBlocks..(size - 1)
      /\ version \in Nat \ {0}
  BY DEF RecTypes
<1>4. Len(log) \in Nat /\ Len(pages) \in Nat
  BY <1>3, SMT
<1> QED BY <1>1, <1>2, <1>3, <1>4

\* The metadata in memory has the values in memory.
LEMMA MetadataFields ==
    /\ Metadata.curr_version = curr_version /\ Metadata.childXattr = childXattr
    /\ Metadata.logDiskSize = logDiskSize /\ Metadata.diskSize = diskSize
    /\ Metadata.mapped = mapped
  BY DEF Metadata, MetadataWith

\* The first open of a new parent.
LEMMA InitOK ==
    ASSUME Init
    PROVE  RecInv
<1>1. /\ phase = "open" /\ version = 1 /\ log = << >> /\ pages = << >> /\ logDiskSize = 0
      /\ size = OrigBlocks /\ diskSize = OrigBlocks /\ mapped = {} /\ dirty = {}
      /\ curr_version = 1 /\ childXattr = [c \in Children |-> 1] /\ disk = Metadata
  BY DEF Init
<1>2. MetadataOK(Metadata)
  BY <1>1, LogAssumption, MetadataFields, SMT DEF MetadataOK
<1>3. RecTypes
  BY <1>1, <1>2, LogAssumption, SMT DEF RecTypes
<1>4. ~ AsMounted
  BY <1>1, SMT DEF AsMounted
<1>5. ~ CutRemains
  BY <1>1, <1>4, MetadataFields, SMT DEF CutRemains
<1>6. \A ms, n, vs : Kept(log, 0, 1, ms, n, vs)
  BY SMT DEF Kept
<1>7. Opened(0, 1)
  <2>1. Ordered(log, Len(log)) /\ Len(log) = 0
    BY <1>1, SMT DEF Ordered
  <2> QED BY <1>1, <1>6, <2>1, MetadataFields, SMT DEF Opened
<1> QED BY <1>1, <1>3, <1>4, <1>5, <1>7 DEF RecInv, MountInv, DiskInv

\* A write outside or inside a transaction: the record goes behind the others,
\* with a version above all that recovery kept.
LEMMA AppendKept ==
    ASSUME RecInv, phase = "open", version < MAX_VERSIONS,
           NEW L \in LogicalBlocks, NEW len \in Lens, AppendRecord(version + 1, L, len),
           version' \in {version, version + 1},
           UNCHANGED <<control, diskSize, mapped, xattrs, diskVars>>
    PROVE  RecInv'
<1> DEFINE rec == [version_num |-> version + 1, logical_start_blk |-> L,
                   physical_start_blk |-> size, len_blks |-> len]
           n == Len(log)
<1>1. PICK q \in Nat, base \in Nat : Opened(q, base)
  BY DEF RecInv
<1>2. RecTypes /\ MountInv /\ DiskInv
  BY DEF RecInv
<1>3. /\ log' = Append(log, rec) /\ logDiskSize' = n + 1 /\ size' = size + len
      /\ dirty' = dirty \cup size..(size + len - 1)
  BY DEF AppendRecord
<1>4. /\ phase' = "open" /\ diskSize' = diskSize /\ mapped' = mapped
      /\ curr_version' = curr_version /\ childXattr' = childXattr
      /\ disk' = disk /\ pages' = pages
  BY DEF control, xattrs, diskVars
<1>5. /\ version \in Nat \ {0} /\ n \in Nat /\ log \in Seq(Record)
      /\ size \in Nat /\ size >= OrigBlocks /\ L \in Nat /\ len \in Nat /\ len > 0
      /\ diskSize <= size /\ dirty \subseteq OrigBlocks..(size - 1)
      /\ diskSize \in Nat
  BY <1>2, TypeFacts, LogAssumption, RecoveryAssumption, SMT
<1>6. rec \in Record /\ rec.version_num = version + 1 /\ rec.physical_start_blk = size
      /\ RecordEnd(rec) = size + len /\ Extent(rec) \subseteq size..(size + len - 1)
  <2>1. rec \in Record
    BY <1>5, SMT DEF Record
  <2>2. RecordEnd(rec) = size + len
    BY DEF RecordEnd
  <2>3. Extent(rec) = size..(RecordEnd(rec) - 1)
    BY DEF Extent
  <2>4. rec.version_num = version + 1 /\ rec.physical_start_blk = size
    OBVIOUS
  <2> HIDE DEF rec
  <2>5. Extent(rec) \subseteq size..(size + len - 1)
    BY <1>5, <2>2, <2>3, SMT
  <2> QED BY <2>1, <2>2, <2>4, <2>5
<1> HIDE DEF rec, n
<1>7. /\ log' \in Seq(Record) /\ Len(log') = n + 1 /\ log'[n + 1] = rec
      /\ \A i \in 1..n : log'[i] = log[i]
  <2>1. \A r \in Record : /\ Append(log, r) \in Seq(Record) /\ Len(Append(log, r)) = n + 1
                          /\ Append(log, r)[n + 1] = r
                          /\ \A i \in 1..n : Append(log, r)[i] = log[i]
    BY <1>5, SMT DEF n
  <2> QED BY <1>3, <1>6, <2>1
<1>8. RecTypes'
  <2>1. MetadataOK(Metadata)'
    BY <1>2, <1>3, <1>4, <1>5, SMT DEF RecTypes, MetadataOK, Metadata, MetadataWith
  <2>2. dirty' \subseteq OrigBlocks..(size' - 1)
    BY <1>3, <1>5, LogAssumption, SMT
  <2>3. version' \in Nat \ {0} /\ size' \in Nat /\ diskSize' <= size'
    BY <1>3, <1>4, <1>5, SMT
  <2>4. MetadataOK(disk)' /\ pages' \in Seq(Record)
    BY <1>2, <1>4 DEF RecTypes
  <2> QED BY <1>3, <1>4, <1>5, <1>7, <2>1, <2>2, <2>3, <2>4, SMT DEF RecTypes
<1>9. ~ AsMounted'
  BY <1>3, <1>4, <1>5, <1>7, SMT DEF AsMounted
<1>10. DiskInv'
  <2> SUFFICES ASSUME CutRemains' PROVE \E a \in Nat, b \in Nat : Image(disk, pages, a, b)
    BY <1>4 DEF DiskInv
  <2>1. /\ n + 1 <= Len(pages) /\ \A i \in 1..(n + 1) : log'[i] = pages[i]
        /\ disk.logDiskSize <= Len(pages) /\ n + 1 < disk.logDiskSize
    BY <1>4, <1>7, <1>9 DEF CutRemains, AsOnDisk
  <2>2. Len(pages) \in Nat /\ disk.logDiskSize \in Nat
    BY <1>2, TypeFacts
  <2>3. n <= Len(pages) /\ n < disk.logDiskSize /\ \A i \in 1..n : log[i] = pages[i]
    BY <1>5, <1>7, <2>1, <2>2, SMT
  <2>4. CutRemains
    BY <2>1, <2>3 DEF CutRemains, AsOnDisk, n
  <2> QED BY <1>2, <2>4 DEF DiskInv
<1>11. Opened(q, base)'
  <2>1. /\ q \in 0..n /\ q <= disk.logDiskSize
        /\ base \in Nat \ {0} /\ base <= curr_version /\ base <= disk.curr_version
        /\ curr_version <= version
        /\ Ordered(log, n)
        /\ \A i \in 1..n : log[i].version_num <= version + 1 /\ RecordEnd(log[i]) <= size
        /\ \A i \in (q + 1)..n : log[i].version_num > base /\ Extent(log[i]) \subseteq mapped \cup dirty
    BY <1>1 DEF Opened, n
  <2>2. /\ Kept(log, q, base, mapped, diskSize, ChildVersions(childXattr))
        /\ Kept(log, q, base, mapped, diskSize, ChildVersions(disk.childXattr))
        /\ Kept(log, q, base, disk.mapped, disk.diskSize, ChildVersions(disk.childXattr))
    BY <1>1 DEF Opened
  <2>3. q \in Nat /\ \A i \in 1..q : log'[i] = log[i]
    BY <1>5, <1>7, <2>1, SMT
  <2>4. /\ Kept(log', q, base, mapped', diskSize', ChildVersions(childXattr'))
        /\ Kept(log', q, base, mapped', diskSize', ChildVersions(disk'.childXattr))
        /\ Kept(log', q, base, disk'.mapped, disk'.diskSize, ChildVersions(disk'.childXattr))
    BY <1>4, <2>2, <2>3, KeptSame
  <2>5. curr_version \in Nat
    BY <1>2, TypeFacts
  <2>6. Ordered(log', n + 1)
    <3>1. Ordered(log', n)
      BY <1>5, <1>7, <2>1, OrderedSame, SMT
    <3>2. \A i \in 1..(n + 1) : i \in 1..n \/ i = n + 1
      BY <1>5, SMT
    <3>3. \A j \in 1..n : log'[j].version_num <= version + 1 /\ RecordEnd(log'[j]) <= size
      BY <1>7, <2>1
    <3>4. version + 1 \in 2..MAX_VERSIONS
      BY <1>5, LogAssumption, SMT
    <3>5. \A j \in 1..((n + 1) - 1) : j \in 1..n
      BY <1>5, SMT
    <3>6. /\ log'[n + 1] \in Record /\ log'[n + 1].version_num \in 2..MAX_VERSIONS
          /\ log'[n + 1].physical_start_blk >= OrigBlocks
          /\ \A j \in 1..((n + 1) - 1) : /\ log'[j].version_num <= log'[n + 1].version_num
                                         /\ RecordEnd(log'[j]) <= log'[n + 1].physical_start_blk
      BY <1>5, <1>6, <1>7, <3>3, <3>4, <3>5
    <3> QED BY <3>1, <3>2, <3>6 DEF Ordered
  <2>7. ASSUME NEW i \in 1..(n + 1)
        PROVE  /\ log'[i].version_num <= version' + 1
               /\ RecordEnd(log'[i]) <= size'
               /\ i > q => log'[i].version_num > base /\ Extent(log'[i]) \subseteq mapped' \cup dirty'
    <3>1. CASE i = n + 1
      BY <1>3, <1>5, <1>6, <1>7, <2>1, <2>5, <3>1, SMT
    <3>2. CASE i \in 1..n
      <4>1. log'[i] = log[i] /\ log[i].version_num <= version + 1 /\ RecordEnd(log[i]) <= size
        BY <1>7, <2>1, <3>2
      <4>2. log[i].version_num \in Nat /\ RecordEnd(log[i]) \in Nat
        BY <1>5, <2>1, <3>2, OrderedFields
      <4>3. i > q => log[i].version_num > base /\ Extent(log[i]) \subseteq mapped \cup dirty
        BY <1>5, <2>1, <3>2, SMT
      <4>4. log[i].version_num <= version' + 1 /\ RecordEnd(log[i]) <= size'
        BY <1>3, <1>5, <4>1, <4>2, SMT
      <4>5. mapped \cup dirty \subseteq mapped' \cup dirty'
        BY <1>3, <1>4
      <4> QED BY <4>1, <4>3, <4>4, <4>5
    <3> QED BY <1>5, <3>1, <3>2, SMT
  <2>8. \A i \in (q + 1)..(n + 1) : i \in 1..(n + 1) /\ i > q
    BY <1>5, <2>1, SMT
  <2>9. curr_version <= version' /\ q \in 0..(n + 1)
    BY <1>5, <2>1, <2>5, SMT
  <2>10. ~ (Len(log') < logDiskSize')
    BY <1>3, <1>5, <1>7, SMT
  <2> QED BY <1>4, <1>7, <2>1, <2>4, <2>6, <2>7, <2>8, <2>9, <2>10 DEF Opened
<1> QED BY <1>4, <1>8, <1>9, <1>10, <1>11 DEF RecInv, MountInv

\* A step that changes nothing the invariant speaks of.
LEMMA StutterKept ==
    ASSUME RecInv, UNCHANGED <<control, version, logVars, dataVars, xattrs, diskVars>>
    PROVE  RecInv'
<1>1. /\ phase' = phase /\ rollback_version' = rollback_version
      /\ valid_log_end' = valid_log_end /\ expected_end' = expected_end
      /\ version' = version /\ log' = log /\ logDiskSize' = logDiskSize
      /\ size' = size /\ diskSize' = diskSize /\ mapped' = mapped /\ dirty' = dirty
      /\ curr_version' = curr_version /\ childXattr' = childXattr
      /\ disk' = disk /\ pages' = pages
  BY DEF control, locals, logVars, dataVars, xattrs, diskVars
<1>2. Metadata' = Metadata
  BY <1>1 DEF Metadata, MetadataWith
<1>3. RecTypes'
  BY <1>1, <1>2 DEF RecInv, RecTypes
<1>4. MountInv'
  BY <1>1 DEF RecInv, MountInv, AsMounted, AsOnDisk
<1>5. DiskInv'
  BY <1>1 DEF RecInv, DiskInv, CutRemains, AsMounted, AsOnDisk
<1>6. \A q \in Nat, base \in Nat : Recovering(q, base) => Recovering(q, base)'
  BY <1>1, <1>2 DEF Recovering
<1>7. \A q \in Nat, base \in Nat : Opened(q, base) => Opened(q, base)'
  BY <1>1, <1>2 DEF Opened
<1> QED BY <1>1, <1>3, <1>4, <1>5, <1>6, <1>7 DEF RecInv

\* A close saves a version from base on, and moves children to such versions.
LEMMA CloseKept ==
    ASSUME RecInv, phase = "open", curr_version' = version,
           childXattr' \in [Children -> Nat],
           \A c \in Children : childXattr'[c] \in {childXattr[c], curr_version},
           UNCHANGED <<control, version, logVars, dataVars, diskVars>>
    PROVE  RecInv'
<1>1. PICK q \in Nat, base \in Nat : Opened(q, base)
  BY DEF RecInv
<1>2. RecTypes /\ MountInv /\ DiskInv
  BY DEF RecInv
<1>3. /\ phase' = phase /\ version' = version /\ log' = log /\ logDiskSize' = logDiskSize
      /\ size' = size /\ diskSize' = diskSize /\ mapped' = mapped /\ dirty' = dirty
      /\ disk' = disk /\ pages' = pages
  BY DEF control, logVars, dataVars, diskVars
<1>4. RecTypes'
  <2>1. MetadataOK(Metadata)'
    BY <1>2, <1>3 DEF RecTypes, MetadataOK, Metadata, MetadataWith
  <2> QED BY <1>2, <1>3, <2>1 DEF RecTypes
<1>5. MountInv'
  BY <1>2, <1>3 DEF MountInv, AsMounted, AsOnDisk
<1>6. DiskInv'
  BY <1>2, <1>3 DEF DiskInv, CutRemains, AsMounted, AsOnDisk
<1>7. /\ q \in 0..Len(log) /\ q <= disk.logDiskSize
      /\ base \in Nat \ {0} /\ base <= curr_version /\ base <= disk.curr_version
      /\ curr_version <= version
      /\ Ordered(log, Len(log))
      /\ \A i \in 1..Len(log) : /\ log[i].version_num <= version + 1
                                /\ RecordEnd(log[i]) <= size
      /\ \A i \in (q + 1)..Len(log) : /\ log[i].version_num > base
                                      /\ Extent(log[i]) \subseteq mapped \cup dirty
  BY <1>1 DEF Opened
<1>8. /\ Kept(log, q, base, mapped, diskSize, ChildVersions(childXattr))
      /\ Kept(log, q, base, mapped, diskSize, ChildVersions(disk.childXattr))
      /\ Kept(log, q, base, disk.mapped, disk.diskSize, ChildVersions(disk.childXattr))
      /\ Len(log) < logDiskSize => q = Len(log) /\ Image(Metadata, pages, q, base)
  BY <1>1 DEF Opened
<1>9. curr_version \in Nat /\ version \in Nat /\ diskSize \in Nat /\ Len(log) \in Nat
  BY <1>2, TypeFacts
<1>10. base <= version /\ version <= version
  BY <1>7, <1>9, SMT
<1>11. \A v \in ChildVersions(childXattr') : v \in ChildVersions(childXattr) \/ v >= base
  <2>1. ASSUME NEW c \in Children
        PROVE  childXattr'[c] \in ChildVersions(childXattr) \/ childXattr'[c] >= base
    <3>1. CASE childXattr'[c] = childXattr[c]
      BY <3>1 DEF ChildVersions
    <3>2. CASE childXattr'[c] = curr_version
      BY <1>7, <1>9, <3>2
    <3> QED BY <3>1, <3>2
  <2> QED BY <2>1 DEF ChildVersions
<1>12. Kept(log, q, base, mapped, diskSize, ChildVersions(childXattr'))
  <2>1. q \in Nat /\ Ordered(log, q)
    BY <1>7, <1>9, OrderedSame
  <2>2. diskSize <= diskSize /\ mapped \subseteq mapped
    BY <1>9, SMT
  <2> QED BY <1>8, <1>9, <1>11, <2>1, <2>2, KeptGrows
<1>13. Len(log) < logDiskSize => q = Len(log) /\ Image(Metadata', pages, q, base)
  <2> SUFFICES ASSUME Len(log) < logDiskSize PROVE Image(Metadata', pages, q, base)
    BY <1>8
  <2>1. Image(Metadata, pages, q, base)
    BY <1>8
  <2>2. /\ Metadata'.curr_version = version /\ Metadata'.childXattr = childXattr'
        /\ Metadata'.logDiskSize = logDiskSize /\ Metadata'.diskSize = diskSize
        /\ Metadata'.mapped = mapped
    BY <1>3 DEF Metadata, MetadataWith
  <2>3. MetadataOK(Metadata) /\ MetadataOK(Metadata')
    BY <1>2, <1>4 DEF RecTypes
  <2>4. /\ Metadata'.logDiskSize = Metadata.logDiskSize /\ Metadata'.mapped = Metadata.mapped
        /\ Metadata.diskSize <= Metadata'.diskSize /\ base <= Metadata'.curr_version
        /\ \A v \in ChildVersions(Metadata'.childXattr) :
              v \in ChildVersions(Metadata.childXattr) \/ v >= base
    BY <1>9, <1>10, <1>11, <2>2, MetadataFields, SMT
  <2> QED BY <2>1, <2>3, <2>4, ImageGrows
<1>14. Opened(q, base)'
  BY <1>3, <1>7, <1>8, <1>10, <1>12, <1>13 DEF Opened
<1> QED BY <1>3, <1>4, <1>5, <1>6, <1>14 DEF RecInv

\* END of a transaction: the pages of the log are those in memory, or nothing was
\* appended since the mount and they are as the mount found them.
LEMMA EndKept ==
    ASSUME RecInv, EndTransaction
    PROVE  RecInv'
<1>1. PICK q \in Nat, base \in Nat : Opened(q, base)
  BY DEF RecInv, EndTransaction
<1>2. RecTypes /\ MountInv /\ DiskInv
  BY DEF RecInv
<1>3. /\ phase = "open" /\ phase' = "open" /\ version' = version + 1
      /\ log' = log /\ logDiskSize' = logDiskSize
      /\ size' = size /\ diskSize' = diskSize /\ mapped' = mapped /\ dirty' = dirty
      /\ curr_version' = curr_version /\ childXattr' = childXattr
      /\ pages' = IF LogAppended THEN log ELSE pages
  BY DEF EndTransaction, control, logVars, dataVars, xattrs
<1>4. disk' = Metadata \/ disk' = disk
  BY DEF EndTransaction, CommitOf
<1>5. Metadata' = Metadata
  BY <1>3 DEF Metadata, MetadataWith
<1>6. /\ version \in Nat \ {0} /\ Len(log) \in Nat /\ logDiskSize \in Nat
      /\ curr_version \in Nat /\ Len(log) <= logDiskSize
  BY <1>2, TypeFacts
<1>7. RecTypes'
  <2>1. pages' \in Seq(Record)
    BY <1>2, <1>3 DEF RecTypes
  <2>2. MetadataOK(disk')
    BY <1>2, <1>4 DEF RecTypes
  <2>3. version' \in Nat \ {0}
    BY <1>3, <1>6, SMT
  <2> QED BY <1>2, <1>3, <1>5, <2>1, <2>2, <2>3 DEF RecTypes
<1>8. /\ q \in 0..Len(log) /\ q <= disk.logDiskSize
      /\ base \in Nat \ {0} /\ base <= curr_version /\ base <= disk.curr_version
      /\ curr_version <= version
      /\ Ordered(log, Len(log))
      /\ \A i \in 1..Len(log) : /\ log[i].version_num <= version + 1
                                /\ RecordEnd(log[i]) <= size
      /\ \A i \in (q + 1)..Len(log) : /\ log[i].version_num > base
                                      /\ Extent(log[i]) \subseteq mapped \cup dirty
  BY <1>1 DEF Opened
<1>9. /\ Kept(log, q, base, mapped, diskSize, ChildVersions(childXattr))
      /\ Kept(log, q, base, mapped, diskSize, ChildVersions(disk.childXattr))
      /\ Kept(log, q, base, disk.mapped, disk.diskSize, ChildVersions(disk.childXattr))
      /\ Len(log) < logDiskSize => q = Len(log) /\ Image(Metadata, pages, q, base)
  BY <1>1 DEF Opened
<1>10. /\ q <= disk'.logDiskSize /\ base <= disk'.curr_version
       /\ Kept(log, q, base, mapped, diskSize, ChildVersions(disk'.childXattr))
       /\ Kept(log, q, base, disk'.mapped, disk'.diskSize, ChildVersions(disk'.childXattr))
  <2>1. q <= logDiskSize
    BY <1>6, <1>8, SMT
  <2> QED BY <1>4, <1>8, <1>9, <2>1, MetadataFields
<1>11. /\ curr_version <= version'
       /\ \A i \in 1..Len(log) : log[i].version_num <= version' + 1
  <2>1. \A i \in 1..Len(log) : log[i].version_num \in Nat
    BY <1>6, <1>8, OrderedFields
  <2> QED BY <1>3, <1>6, <1>8, <2>1, SMT
<1>12. Len(log) < logDiskSize => pages' = pages
  BY <1>3, <1>6, SMT DEF LogAppended
<1>13. Opened(q, base)'
  BY <1>3, <1>5, <1>8, <1>9, <1>10, <1>11, <1>12 DEF Opened
<1>14. CASE LogAppended
  <2>1. ~ AsMounted' /\ pages' = log
    BY <1>3, <1>6, <1>14, SMT DEF AsMounted, LogAppended
  <2>2. ~ CutRemains'
    <3>1. disk'.logDiskSize \in Nat
      BY <1>7 DEF RecTypes, MetadataOK
    <3> QED BY <1>3, <1>6, <2>1, <3>1, SMT DEF CutRemains
  <2> QED BY <1>3, <1>7, <1>13, <2>1, <2>2 DEF RecInv, MountInv, DiskInv
<1>15. CASE ~ LogAppended
  <2>1. Len(log) < logDiskSize /\ pages' = pages
    BY <1>3, <1>6, <1>15, SMT DEF LogAppended
  <2>2. AsMounted /\ AsOnDisk(Len(log)) /\ logDiskSize <= Len(pages)
        /\ disk.logDiskSize = logDiskSize /\ dirty = {}
    BY <1>2, <2>1 DEF AsMounted, MountInv
  <2>3. disk'.logDiskSize = logDiskSize
    BY <1>4, <2>2, MetadataFields
  <2>4. MountInv'
    BY <1>3, <2>1, <2>2, <2>3 DEF MountInv, AsOnDisk
  <2>5. CutRemains
    BY <2>2 DEF CutRemains
  <2>6. \E a \in Nat, b \in Nat : Image(disk', pages', a, b)
    BY <1>2, <1>4, <1>9, <2>1, <2>5 DEF DiskInv
  <2>7. DiskInv'
    BY <2>6 DEF DiskInv
  <2> QED BY <1>3, <1>7, <1>13, <2>4, <2>7 DEF RecInv
<1> QED BY <1>14, <1>15

\* A journal commit.  While the log is as it was mounted nothing is dirty, and
\* the commit only makes the metadata durable.
LEMMA CommitKept ==
    ASSUME RecInv, NEW bs \in SUBSET dirty, Commit(bs)
    PROVE  RecInv'
<1>1. RecTypes /\ MountInv /\ DiskInv
  BY DEF RecInv
<1>2. /\ mapped' = mapped \cup bs /\ dirty' = dirty \ bs
      /\ diskSize' = Latest({diskSize} \cup {b + 1 : b \in bs})
      /\ disk' = MetadataWith(diskSize', mapped')
  BY DEF Commit, CommitOf
<1>3. /\ phase' = phase /\ rollback_version' = rollback_version
      /\ valid_log_end' = valid_log_end /\ expected_end' = expected_end
      /\ version' = version /\ log' = log /\ logDiskSize' = logDiskSize
      /\ size' = size /\ curr_version' = curr_version /\ childXattr' = childXattr
      /\ pages' = pages
  BY DEF Commit, control, locals, logVars, xattrs
<1>4. /\ diskSize \in Nat /\ size \in Nat /\ diskSize <= size /\ diskSize >= OrigBlocks
      /\ dirty \subseteq OrigBlocks..(size - 1) /\ mapped \subseteq OrigBlocks..(diskSize - 1)
      /\ Len(log) \in Nat /\ logDiskSize \in Nat /\ Len(log) <= logDiskSize
      /\ curr_version \in Nat
  BY <1>1, TypeFacts
<1>5. /\ diskSize' \in Nat /\ diskSize <= diskSize' /\ diskSize' <= size
      /\ \A b \in bs : b < diskSize'
      /\ bs = {} => diskSize' = diskSize
  <2> DEFINE S == {diskSize} \cup {b + 1 : b \in bs}
  <2>1. S \subseteq 1..size
    BY <1>4, LogAssumption, SMT
  <2>2. Latest(S) \in S /\ \A y \in S : Latest(S) >= y
    BY <1>4, <2>1, LatestPosition
  <2>3. bs = {} => S = {diskSize}
    OBVIOUS
  <2>4. diskSize \in S /\ \A b \in bs : b + 1 \in S
    OBVIOUS
  <2>5. diskSize' = Latest(S)
    BY <1>2
  <2> HIDE DEF S
  <2>6. diskSize' \in S /\ diskSize' \in 1..size /\ \A y \in S : diskSize' >= y
    BY <2>1, <2>2, <2>5
  <2>7. \A b \in bs : b \in Int /\ b + 1 <= diskSize'
    BY <1>4, <2>4, <2>6, SMT
  <2> QED BY <1>4, <2>3, <2>4, <2>6, <2>7, SMT
<1>6. disk' = Metadata'
  BY <1>2, <1>3 DEF Metadata, MetadataWith
<1>7. RecTypes'
  <2>1. mapped' \subseteq OrigBlocks..(diskSize' - 1)
    <3>1. \A b \in bs : b \in OrigBlocks..(size - 1)
      BY <1>4
    <3>2. /\ OrigBlocks \in Nat /\ size \in Nat /\ diskSize \in Nat /\ diskSize' \in Nat
          /\ diskSize <= diskSize'
      BY <1>4, <1>5, LogAssumption
    <3>3. ASSUME NEW b \in bs PROVE b \in OrigBlocks..(diskSize' - 1)
      BY <1>5, <3>1, <3>2, SMT
    <3>4. ASSUME NEW b \in mapped PROVE b \in OrigBlocks..(diskSize' - 1)
      <4>1. b \in OrigBlocks..(diskSize - 1)
        BY <1>4
      <4> QED BY <3>2, <4>1, RangeGrows
    <3> QED BY <1>2, <3>3, <3>4
  <2>2. diskSize' >= OrigBlocks
    BY <1>4, <1>5, LogAssumption, SMT
  <2>3. MetadataOK(Metadata)'
    BY <1>1, <1>3, <1>5, <2>1, <2>2 DEF RecTypes, MetadataOK, Metadata, MetadataWith
  <2>4. dirty' \subseteq OrigBlocks..(size - 1)
    BY <1>2, <1>4
  <2> QED BY <1>1, <1>3, <1>5, <1>6, <2>3, <2>4 DEF RecTypes
<1>8. /\ disk'.logDiskSize = logDiskSize /\ disk'.curr_version = curr_version
      /\ disk'.childXattr = childXattr /\ disk'.mapped = mapped' /\ disk'.diskSize = diskSize'
  BY <1>2 DEF MetadataWith
<1>9. AsMounted => bs = {} /\ dirty' = {} /\ Metadata' = Metadata
  <2> SUFFICES ASSUME AsMounted PROVE bs = {} /\ dirty' = {} /\ Metadata' = Metadata
    OBVIOUS
  <2>1. dirty = {}
    BY <1>1 DEF MountInv
  <2>2. bs = {}
    BY <2>1
  <2>3. mapped' = mapped /\ diskSize' = diskSize /\ dirty' = {}
    BY <1>2, <1>5, <2>1, <2>2
  <2> QED BY <1>3, <2>2, <2>3 DEF Metadata, MetadataWith
<1>10. AsMounted' = AsMounted
  BY <1>3 DEF AsMounted
<1>11. MountInv'
  BY <1>1, <1>3, <1>8, <1>9, <1>10 DEF MountInv, AsOnDisk
<1>12. CASE phase = "open"
  <2>1. PICK q \in Nat, base \in Nat : Opened(q, base)
    BY <1>12 DEF RecInv
  <2>2. /\ q \in 0..Len(log)
        /\ base \in Nat \ {0} /\ base <= curr_version
        /\ curr_version <= version
        /\ Ordered(log, Len(log))
        /\ \A i \in 1..Len(log) : /\ log[i].version_num <= version + 1
                                  /\ RecordEnd(log[i]) <= size
        /\ \A i \in (q + 1)..Len(log) : /\ log[i].version_num > base
                                        /\ Extent(log[i]) \subseteq mapped \cup dirty
    BY <2>1 DEF Opened
  <2>3. /\ Kept(log, q, base, mapped, diskSize, ChildVersions(childXattr))
        /\ Len(log) < logDiskSize => q = Len(log) /\ Image(Metadata, pages, q, base)
    BY <2>1 DEF Opened
  <2>4. Kept(log, q, base, mapped', diskSize', ChildVersions(childXattr))
    <3>1. q \in Nat /\ Ordered(log, q)
      BY <1>4, <2>2, OrderedSame
    <3>2. mapped \subseteq mapped'
      BY <1>2
    <3> QED BY <1>4, <1>5, <2>3, <3>1, <3>2, KeptGrows
  <2>5. Len(log) < logDiskSize => AsMounted
    BY DEF AsMounted
  <2>6. Len(log) < logDiskSize => q = Len(log) /\ Image(Metadata', pages, q, base)
    BY <1>9, <2>3, <2>5
  <2>7. q <= logDiskSize
    BY <1>4, <2>2, SMT
  <2>8. mapped \cup dirty \subseteq mapped' \cup dirty'
    BY <1>2
  <2>9. \A i \in (q + 1)..Len(log) : /\ log[i].version_num > base
                                     /\ Extent(log[i]) \subseteq mapped' \cup dirty'
    BY <2>2, <2>8
  <2>10. Opened(q, base)'
    BY <1>3, <1>8, <2>2, <2>4, <2>6, <2>7, <2>9 DEF Opened
  <2>11. DiskInv'
    <3> SUFFICES ASSUME CutRemains' PROVE \E a \in Nat, b \in Nat : Image(disk', pages', a, b)
      BY DEF DiskInv
    <3>1. Len(log) < logDiskSize
      BY <1>3, <1>8, <1>12 DEF CutRemains, AsMounted
    <3> QED BY <1>3, <1>6, <2>6, <3>1
  <2> QED BY <1>3, <1>7, <1>11, <1>12, <2>10, <2>11 DEF RecInv
<1>13. CASE phase # "open"
  <2>1. PICK q \in Nat, base \in Nat : Recovering(q, base)
    BY <1>13 DEF RecInv
  <2>2. AsMounted /\ Metadata' = Metadata
    BY <1>9, <1>13 DEF AsMounted
  <2>3. mapped' = mapped /\ diskSize' = diskSize
    BY <1>2, <1>5, <1>9, <2>2
  <2>4. /\ curr_version <= disk'.curr_version /\ childXattr = disk'.childXattr
        /\ diskSize <= disk'.diskSize /\ mapped \subseteq disk'.mapped
    BY <1>4, <1>8, <2>3, SMT
  <2>5. Recovering(q, base)'
    BY <1>3, <2>1, <2>2, <2>3, <2>4 DEF Recovering
  <2>6. Image(disk', pages', q, base)
    BY <1>3, <1>6, <2>1, <2>2 DEF Recovering
  <2>7. DiskInv'
    BY <2>6 DEF DiskInv
  <2> QED BY <1>3, <1>7, <1>11, <1>13, <2>5, <2>7 DEF RecInv
<1> QED BY <1>12, <1>13

\* A mount reads a disk that recovery can work with.
LEMMA ReloadKept ==
    ASSUME MetadataOK(disk'), NEW ps \in Seq(Record), pages' = ps, Reload(disk', ps),
           NEW q \in Nat, NEW base \in Nat, Image(disk', ps, q, base)
    PROVE  RecInv'
<1> DEFINE d == disk'
           n == disk'.logDiskSize
<1>1. /\ phase' = "truncate" /\ version' = d.curr_version /\ curr_version' = d.curr_version
      /\ childXattr' = d.childXattr /\ log' = DiskLog(d, ps) /\ logDiskSize' = n
      /\ size' = d.diskSize /\ diskSize' = d.diskSize /\ mapped' = d.mapped /\ dirty' = {}
      /\ rollback_version' = 0
  BY DEF Reload
<1>2. /\ d.curr_version \in Nat \ {0} /\ d.childXattr \in [Children -> Nat] /\ n \in Nat
      /\ d.diskSize \in Nat /\ d.diskSize >= OrigBlocks
      /\ d.mapped \subseteq OrigBlocks..(d.diskSize - 1)
  BY DEF MetadataOK
<1>3. n <= Len(ps) /\ Len(ps) \in Nat /\ q \in 0..n
  BY SMT DEF Image
<1>4. log' \in Seq(Record) /\ Len(log') = n /\ \A i \in 1..n : log'[i] = ps[i]
  <2>1. \A i \in 1..n : i <= Len(ps) /\ ps[i] \in Record
    BY <1>2, <1>3, SMT
  <2>2. log' = [i \in 1..n |-> IF i <= Len(ps) THEN ps[i] ELSE ZeroRecord]
    BY <1>1 DEF DiskLog
  <2>3. \A i \in 1..n : log'[i] = ps[i] /\ log'[i] \in Record
    BY <2>1, <2>2
  <2>4. log' \in [1..n -> Record]
    BY <2>2, <2>3
  <2> QED BY <1>2, <2>3, <2>4, SMT
<1>5. /\ Metadata'.curr_version = d.curr_version /\ Metadata'.childXattr = d.childXattr
      /\ Metadata'.logDiskSize = n /\ Metadata'.diskSize = d.diskSize
      /\ Metadata'.mapped = d.mapped
  BY <1>1 DEF Metadata, MetadataWith
<1>6. MetadataOK(Metadata')
  BY <1>2, <1>5 DEF MetadataOK
<1>7. Image(Metadata', ps, q, base)
  <2>1. d.diskSize <= d.diskSize /\ base <= d.curr_version
    BY <1>2, SMT DEF Image
  <2> QED BY <1>5, <1>6, <2>1, ImageGrows
<1>8. RecTypes'
  <2>1. dirty' \subseteq OrigBlocks..(size' - 1) /\ Len(log') <= logDiskSize'
        /\ diskSize' <= size' /\ size' \in Nat /\ version' \in Nat \ {0}
    BY <1>1, <1>2, <1>4, SMT
  <2> QED BY <1>1, <1>4, <1>6, <2>1 DEF RecTypes
<1>9. AsOnDisk(Len(log))'
  BY <1>3, <1>4 DEF AsOnDisk
<1>10. MountInv'
  BY <1>1, <1>3, <1>9 DEF MountInv
<1>11. DiskInv'
  BY DEF DiskInv
<1>12. Recovering(q, base)'
  <2>1. q <= Len(log') /\ version' = curr_version' /\ curr_version' <= d.curr_version
        /\ size' = diskSize' /\ diskSize' <= d.diskSize
    BY <1>1, <1>2, <1>3, <1>4, SMT
  <2>2. Image(Metadata', pages', q, base) /\ mapped' \subseteq d.mapped
    BY <1>1, <1>7
  <2>3. phase' = "truncate" /\ Len(log') = logDiskSize' /\ rollback_version' = 0
        /\ childXattr' = d.childXattr
    BY <1>1, <1>4
  <2> QED BY <2>1, <2>2, <2>3 DEF Recovering
<1> QED BY <1>1, <1>8, <1>10, <1>11, <1>12 DEF RecInv

\* An unmount: everything is written back first.
LEMMA UnmountKept ==
    ASSUME RecInv, Unmount
    PROVE  RecInv'
<1> DEFINE d == MetadataWith(size, mapped \cup dirty)
           ps == IF LogAppended THEN log ELSE pages
<1>1. /\ phase = "open" /\ disk' = d /\ pages' = ps /\ Reload(d, ps)
  BY DEF Unmount
<1>2. RecTypes /\ MountInv
  BY DEF RecInv
<1>3. PICK q \in Nat, base \in Nat : Opened(q, base)
  BY <1>1 DEF RecInv
<1>4. /\ diskSize \in Nat /\ size \in Nat /\ diskSize <= size /\ diskSize >= OrigBlocks
      /\ dirty \subseteq OrigBlocks..(size - 1) /\ mapped \subseteq OrigBlocks..(diskSize - 1)
      /\ Len(log) \in Nat /\ logDiskSize \in Nat /\ Len(log) <= logDiskSize
      /\ curr_version \in Nat \ {0} /\ childXattr \in [Children -> Nat]
      /\ log \in Seq(Record) /\ pages \in Seq(Record)
  BY <1>2, TypeFacts
<1>5. /\ d.curr_version = curr_version /\ d.childXattr = childXattr
      /\ d.logDiskSize = logDiskSize /\ d.diskSize = size /\ d.mapped = mapped \cup dirty
  BY DEF MetadataWith
<1> HIDE DEF d
<1>6. MetadataOK(d)
  <2>1. \A b \in OrigBlocks..(diskSize - 1) : b \in OrigBlocks..(size - 1)
    BY <1>4, LogAssumption, SMT
  <2>2. mapped \cup dirty \subseteq OrigBlocks..(size - 1)
    BY <1>4, <2>1
  <2>3. size >= OrigBlocks
    BY <1>4, LogAssumption, SMT
  <2> QED BY <1>4, <1>5, <2>2, <2>3 DEF MetadataOK
<1>7. /\ q \in 0..Len(log) /\ base \in Nat \ {0} /\ base <= curr_version
      /\ Ordered(log, Len(log))
      /\ \A i \in (q + 1)..Len(log) : /\ log[i].version_num > base
                                      /\ Extent(log[i]) \subseteq mapped \cup dirty
      /\ Kept(log, q, base, mapped, diskSize, ChildVersions(childXattr))
      /\ Len(log) < logDiskSize => Image(Metadata, pages, q, base)
  BY <1>3 DEF Opened
<1>8. ps \in Seq(Record)
  BY <1>4
<1>9. Image(d, ps, q, base)
  <2>1. CASE LogAppended
    <3>1. ps = log /\ logDiskSize = Len(log)
      BY <2>1 DEF LogAppended
    <3>2. Kept(log, q, base, d.mapped, d.diskSize, ChildVersions(d.childXattr))
      <4>1. q \in Nat /\ Ordered(log, q)
        BY <1>4, <1>7, OrderedSame
      <4>2. mapped \subseteq mapped \cup dirty
        OBVIOUS
      <4>3. Kept(log, q, base, mapped \cup dirty, size, ChildVersions(childXattr))
        BY <1>4, <1>7, <4>1, <4>2, KeptGrows
      <4> QED BY <1>5, <4>3
    <3>3. \A k \in (q + 1)..Len(log) : \A i \in (q + 1)..k : i \in (q + 1)..Len(log)
      BY <1>4, <1>7, SMT
    <3>4. \A k \in (q + 1)..Len(log) : \A i \in (q + 1)..k : Extent(log[i]) \subseteq d.mapped
      BY <1>5, <1>7, <3>3
    <3>5. Len(log) <= Len(log)
      BY <1>4, SMT
    <3> HIDE DEF ps
    <3> QED BY <1>5, <1>7, <3>1, <3>2, <3>4, <3>5 DEF Image
  <2>2. CASE ~ LogAppended
    <3>1. ps = pages /\ Len(log) < logDiskSize
      BY <1>4, <2>2, SMT DEF LogAppended
    <3>2. Image(Metadata, pages, q, base)
      BY <1>7, <3>1
    <3>3. dirty = {}
      BY <1>2, <3>1 DEF MountInv, AsMounted
    <3>4. d.mapped = mapped
      BY <1>5, <3>3
    <3>5. MetadataOK(Metadata)
      BY <1>2 DEF RecTypes
    <3>6. /\ d.logDiskSize = Metadata.logDiskSize /\ d.mapped = Metadata.mapped
          /\ Metadata.diskSize <= d.diskSize /\ base <= d.curr_version
          /\ ChildVersions(d.childXattr) = ChildVersions(Metadata.childXattr)
      BY <1>4, <1>5, <1>7, <3>4, MetadataFields
    <3>7. Image(d, pages, q, base)
      BY <1>6, <3>2, <3>5, <3>6, ImageGrows
    <3> QED BY <3>1, <3>7
  <2> QED BY <2>1, <2>2
<1> HIDE DEF ps
<1>10. MetadataOK(disk') /\ Reload(disk', ps) /\ Image(disk', ps, q, base)
  BY <1>1, <1>6, <1>9
<1> QED BY <1>1, <1>8, <1>10, ReloadKept

\* A crash, on a disk as recovery expects it: blocks reached it in order and
\* records whole, and the log has no record lost and no hole.  Either the next
\* mount reads records that recovery had cut, or it reads records of the log.
LEMMA CrashKept ==
    ASSUME RecInv, NEW ps \in LogPages, Crash(ps), DiskAsExpected'
    PROVE  RecInv'
<1> DEFINE n == disk.logDiskSize
<1>1. RecTypes /\ MountInv /\ DiskInv
  BY DEF RecInv
<1>2. Reload(disk, ps) /\ pages' = ps /\ disk' = disk
  BY DEF Crash
<1>3. /\ n \in Nat /\ Len(log) \in Nat /\ Len(pages) \in Nat /\ logDiskSize \in Nat
      /\ log \in Seq(Record) /\ pages \in Seq(Record) /\ Len(log) <= logDiskSize
      /\ DOMAIN log = 1..Len(log)
  BY <1>1, TypeFacts, SMT
<1>4. /\ ~ Torn /\ ~ Hole(ps)
      /\ \A i \in DOMAIN log : ~ LostRecord(ps, i)
  <2>1. /\ Torn => "torn" \in seen'
        /\ Hole(ps) => "log" \in seen'
        /\ {i \in DOMAIN log : LostRecord(ps, i)} # {} => "log" \in seen'
    BY DEF Crash
  <2>2. "torn" \notin seen' /\ "log" \notin seen'
    BY DEF DiskAsExpected
  <2> QED BY <2>1, <2>2
<1>5. \/ ps = pages
      \/ \E k \in DOMAIN log : ps = SubSeq(log, 1, k) /\ LogAppended /\ ~ AsOnDisk(k)
  BY DEF LogPages
<1>6. ps \in Seq(Record) /\ Len(ps) \in Nat
  <2>1. CASE ps = pages
    BY <1>3, <2>1
  <2>2. CASE ps # pages
    <3>1. PICK k \in DOMAIN log : ps = SubSeq(log, 1, k)
      BY <1>5, <2>2
    <3>2. k \in 0..Len(log)
      BY <1>3, SMT
    <3> QED BY <1>3, <3>1, <3>2, FirstRecords, SMT
  <2> QED BY <2>1, <2>2
<1>7. n <= Len(ps)
  <2> SUFFICES ASSUME ~ (n <= Len(ps)) PROVE FALSE
    OBVIOUS
  <2>1. n \in 1..n /\ ~ (n <= Len(ps))
    BY <1>3, <1>6, SMT
  <2>2. DiskLog(disk, ps)[n] = ZeroRecord
    BY <2>1 DEF DiskLog
  <2> QED BY <1>4, <2>1, <2>2 DEF Hole
<1>8. ASSUME NEW i \in 1..n, i \in 1..Len(log) PROVE log[i] = ps[i]
  <2>1. i <= Len(ps) /\ i <= n
    BY <1>3, <1>6, <1>7, SMT
  <2>2. DiskLog(disk, ps)[i] = ps[i]
    BY <2>1 DEF DiskLog
  <2> QED BY <1>3, <1>4, <1>8, <2>1, <2>2 DEF LostRecord
<1>9. ASSUME CutRemains, ps = pages PROVE \E q \in Nat, base \in Nat : Image(disk, ps, q, base)
  BY <1>1, <1>9 DEF DiskInv
<1>10. ASSUME AsMounted
       PROVE  \E q \in Nat, base \in Nat : Image(disk, ps, q, base)
  <2>1. AsOnDisk(Len(log))
    BY <1>1, <1>10 DEF MountInv
  <2>2. \A k \in DOMAIN log : AsOnDisk(k)
    BY <1>3, <2>1, SMT DEF AsOnDisk
  <2>3. ps = pages
    BY <1>5, <2>2
  <2>4. CutRemains
    BY <1>7, <1>10, <2>1, <2>3 DEF CutRemains
  <2> QED BY <1>9, <2>3, <2>4
<1>11. ASSUME ~ AsMounted /\ Len(log) < n
       PROVE  \E q \in Nat, base \in Nat : Image(disk, ps, q, base)
  <2>1. ps = pages
    <3> SUFFICES ASSUME ps # pages PROVE FALSE
      OBVIOUS
    <3>1. PICK k \in DOMAIN log : ps = SubSeq(log, 1, k)
      BY <1>5
    <3>2. k \in 0..Len(log)
      BY <1>3, SMT
    <3>3. Len(ps) = k
      BY <1>3, <3>1, <3>2, FirstRecords
    <3> QED BY <1>3, <1>7, <1>11, <3>2, <3>3, SMT
  <2>2. AsOnDisk(Len(log))
    <3>1. Len(log) <= Len(pages)
      BY <1>3, <1>7, <1>11, <2>1, SMT
    <3>2. \A i \in 1..Len(log) : i \in 1..n
      BY <1>3, <1>11, SMT
    <3>3. \A i \in 1..Len(log) : log[i] = pages[i]
      BY <1>8, <2>1, <3>2
    <3> QED BY <3>1, <3>3 DEF AsOnDisk
  <2>3. CutRemains
    BY <1>7, <1>11, <2>1, <2>2 DEF CutRemains
  <2> QED BY <1>9, <2>1, <2>3
<1>12. ASSUME ~ AsMounted /\ ~ (Len(log) < n)
       PROVE  \E q \in Nat, base \in Nat : Image(disk, ps, q, base)
  <2>1. n \in 0..Len(log) /\ \A i \in 1..n : i \in 1..Len(log) /\ ps[i] = log[i]
    BY <1>3, <1>8, <1>12, SMT
  <2>2. PICK q \in Nat, base \in Nat : Opened(q, base)
    BY <1>12 DEF RecInv, AsMounted
  <2>3. /\ q <= n /\ base \in Nat \ {0} /\ base <= disk.curr_version
        /\ Ordered(log, Len(log))
        /\ \A i \in (q + 1)..Len(log) : /\ log[i].version_num > base
                                        /\ Extent(log[i]) \subseteq mapped \cup dirty
        /\ Kept(log, q, base, disk.mapped, disk.diskSize, ChildVersions(disk.childXattr))
    BY <2>2 DEF Opened
  <2>4. Ordered(ps, n)
    BY <1>3, <2>1, <2>3, OrderedSame
  <2>5. Kept(ps, q, base, disk.mapped, disk.diskSize, ChildVersions(disk.childXattr))
    <3>1. q <= n /\ n \in Nat
      BY <1>3, <2>3
    <3>2. \A i \in 1..q : i \in 1..n
      BY <3>1, SMT
    <3>3. \A i \in 1..q : ps[i] = log[i]
      BY <2>1, <3>2
    <3> QED BY <2>3, <3>3, KeptSame
  <2>6. \A i \in (q + 1)..n : i \in (q + 1)..Len(log) /\ i \in 1..n
    BY <1>3, <2>1, SMT
  <2>7. \A i \in (q + 1)..n : ps[i].version_num > base
    BY <2>1, <2>3, <2>6
  <2>8. ASSUME NEW k \in (q + 1)..n, ps[k].physical_start_blk \in disk.mapped,
               NEW i \in (q + 1)..k, NEW b \in Extent(ps[i]), b \notin disk.mapped
        PROVE  FALSE
    <3>1. i \in (q + 1)..n /\ i \in 1..n /\ k \in 1..n /\ i <= k
      BY <1>3, <2>6, SMT
    <3>2. ps[i] = log[i] /\ ps[k] = log[k] /\ i \in DOMAIN log /\ k \in DOMAIN log
      BY <1>3, <2>1, <3>1
    <3>3. b \in Lost
      <4>1. Extent(log[i]) \subseteq mapped \cup dirty
        BY <2>3, <2>6, <3>1
      <4> QED BY <2>8, <3>2, <4>1 DEF Lost
    <3>4. log[i] \in Record /\ log[k] \in Record
      BY <1>3, <3>2, SMT
    <3>5. CASE i = k
      <4>1. log[i].physical_start_blk \in Extent(log[i]) \cap disk.mapped
        BY <2>8, <3>2, <3>4, <3>5, ExtentFacts
      <4> QED BY <1>4, <2>8, <3>2, <3>3, <4>1 DEF Torn
    <3>6. CASE i # k
      <4>1. i \in 1..Len(log) /\ k \in 1..Len(log) /\ i < k
        BY <1>3, <3>1, <3>2, <3>6, SMT
      <4>2. RecordEnd(log[i]) <= log[k].physical_start_blk
        BY <1>3, <2>3, <4>1, OrderedPair
      <4>3. b \in Int /\ b < RecordEnd(log[i])
        BY <2>8, <3>2, <3>4, ExtentFacts
      <4>4. RecordEnd(log[i]) \in Nat /\ log[k].physical_start_blk \in Nat
        BY <3>4, RecordFields
      <4>5. b < log[k].physical_start_blk
        BY <4>2, <4>3, <4>4, SMT
      <4> QED BY <1>4, <2>8, <3>2, <3>3, <4>5 DEF Torn
    <3> QED BY <3>5, <3>6
  <2>9. \A k \in (q + 1)..n : ps[k].physical_start_blk \in disk.mapped =>
           \A i \in (q + 1)..k : Extent(ps[i]) \subseteq disk.mapped
    BY <2>8
  <2>10. q \in 0..n
    BY <1>3, <2>3, SMT
  <2>11. Image(disk, ps, q, base)
    BY <1>7, <2>3, <2>4, <2>5, <2>7, <2>9, <2>10 DEF Image
  <2> QED BY <2>11
<1>13. PICK q \in Nat, base \in Nat : Image(disk, ps, q, base)
  BY <1>10, <1>11, <1>12
<1>14. MetadataOK(disk') /\ Reload(disk', ps) /\ Image(disk', ps, q, base)
  BY <1>1, <1>2, <1>13 DEF RecTypes
<1> QED BY <1>2, <1>6, <1>14, ReloadKept

-----------------------------------------------------------------------------
(* The steps of recovery.                                                  *)

\* Until the parent is open the disk and the pages are as they were mounted.
LEMMA DiskStays ==
    ASSUME RecInv, phase # "open", disk' = disk, pages' = pages
    PROVE  DiskInv'
<1>1. AsOnDisk(Len(log)) /\ logDiskSize <= Len(pages) /\ disk.logDiskSize = logDiskSize
      /\ AsMounted
  BY DEF RecInv, MountInv, AsMounted
<1>2. CutRemains
  BY <1>1 DEF CutRemains
<1>3. \E q \in Nat, base \in Nat : Image(disk', pages', q, base)
  BY <1>2 DEF RecInv, DiskInv
<1> QED BY <1>3 DEF DiskInv

\* What holds of the log while recovery works on it.
LEMMA RecoveringFacts ==
    ASSUME RecTypes, MountInv, phase # "open", NEW q \in Nat, NEW base \in Nat, Recovering(q, base)
    PROVE  /\ q \in 0..Len(log) /\ base \in Nat \ {0} /\ base <= version
           /\ \A i \in 1..Len(log) : i \in 1..logDiskSize /\ log[i] = pages[i]
           /\ Ordered(pages, logDiskSize) /\ Ordered(log, Len(log))
           /\ Kept(pages, q, base, mapped, diskSize, ChildVersions(childXattr))
           /\ Kept(log, q, base, mapped, diskSize, ChildVersions(childXattr))
           /\ \A i \in (q + 1)..logDiskSize : pages[i].version_num > base
           /\ \A k \in (q + 1)..logDiskSize :
                 pages[k].physical_start_blk \in mapped =>
                    \A i \in (q + 1)..k : Extent(pages[i]) \subseteq mapped
           /\ logDiskSize <= Len(pages) /\ disk.logDiskSize = logDiskSize /\ dirty = {}
           /\ Image(Metadata, pages, q, base)
<1>1. /\ Len(log) \in Nat /\ logDiskSize \in Nat /\ Len(log) <= logDiskSize
      /\ version \in Nat
  BY TypeFacts
<1>2. /\ Image(Metadata, pages, q, base) /\ q <= Len(log) /\ version = curr_version
  BY DEF Recovering
<1>3. /\ base \in Nat \ {0} /\ base <= version /\ Ordered(pages, logDiskSize)
      /\ Kept(pages, q, base, mapped, diskSize, ChildVersions(childXattr))
      /\ \A i \in (q + 1)..logDiskSize : pages[i].version_num > base
      /\ \A k \in (q + 1)..logDiskSize :
            pages[k].physical_start_blk \in mapped =>
               \A i \in (q + 1)..k : Extent(pages[i]) \subseteq mapped
  BY <1>2, MetadataFields DEF Image
<1>4. /\ AsOnDisk(Len(log)) /\ logDiskSize <= Len(pages) /\ disk.logDiskSize = logDiskSize
      /\ dirty = {}
  BY DEF MountInv, AsMounted
<1>5. \A i \in 1..Len(log) : i \in 1..logDiskSize /\ log[i] = pages[i]
  BY <1>1, <1>4, SMT DEF AsOnDisk
<1>6. Ordered(log, Len(log))
  BY <1>1, <1>3, <1>5, OrderedSame, SMT
<1>7. q \in 0..Len(log) /\ \A i \in 1..q : log[i] = pages[i]
  BY <1>1, <1>2, <1>5, SMT
<1>8. Kept(log, q, base, mapped, diskSize, ChildVersions(childXattr))
  BY <1>3, <1>7, KeptSame
<1> QED BY <1>2, <1>3, <1>4, <1>5, <1>6, <1>7, <1>8

\* Cutting the log before the first version above the saved one keeps the records
\* that were kept before.
LEMMA TruncateKept ==
    ASSUME RecInv, TruncateLogToVersion
    PROVE  RecInv'
<1>1. /\ phase = "truncate" /\ phase' = "rollback" /\ rollback_version' = rollback_version
      /\ version' = version /\ logDiskSize' = logDiskSize
      /\ size' = size /\ diskSize' = diskSize /\ mapped' = mapped /\ dirty' = dirty
      /\ curr_version' = curr_version /\ childXattr' = childXattr
      /\ disk' = disk /\ pages' = pages
  BY DEF TruncateLogToVersion, dataVars, xattrs, diskVars
<1>2. RecTypes /\ MountInv
  BY DEF RecInv
<1>3. PICK q \in Nat, base \in Nat : Recovering(q, base)
  BY <1>1 DEF RecInv
<1>4. /\ Len(log) \in Nat /\ logDiskSize \in Nat /\ version \in Nat /\ log \in Seq(Record)
      /\ Len(pages) \in Nat
  BY <1>2, TypeFacts
<1>5. /\ q \in 0..Len(log) /\ base <= version
      /\ \A i \in 1..Len(log) : log[i] = pages[i]
      /\ Ordered(pages, logDiskSize)
      /\ Kept(log, q, base, mapped, diskSize, ChildVersions(childXattr))
      /\ logDiskSize <= Len(pages) /\ disk.logDiskSize = logDiskSize /\ dirty = {}
  BY <1>1, <1>2, <1>3, RecoveringFacts
<1>6. Len(log) = logDiskSize /\ rollback_version = 0
  BY <1>1, <1>3 DEF Recovering
<1>7. PICK n \in 0..Len(log) :
         /\ \A i \in 1..n : log[i].version_num <= version
         /\ n < Len(log) => log[n + 1].version_num > version
         /\ log' = SubSeq(log, 1, n) /\ valid_log_end' = n
  BY DEF TruncateLogToVersion
<1>8. log' \in Seq(Record) /\ Len(log') = n /\ \A i \in 1..n : log'[i] = log[i]
  BY <1>4, <1>7, FirstRecords
<1>9. Metadata' = Metadata
  BY <1>1 DEF Metadata, MetadataWith
<1>10. RecTypes'
  <2>1. Len(log') <= logDiskSize'
    BY <1>1, <1>4, <1>6, <1>8, SMT
  <2> QED BY <1>1, <1>2, <1>8, <1>9, <2>1 DEF RecTypes
<1>11. MountInv'
  <2>1. n <= Len(pages) /\ \A i \in 1..n : log'[i] = pages[i]
    BY <1>4, <1>5, <1>6, <1>8, SMT
  <2> QED BY <1>1, <1>5, <1>8, <2>1 DEF MountInv, AsOnDisk
<1>12. q <= n
  <2> SUFFICES ASSUME ~ (q <= n) PROVE FALSE
    OBVIOUS
  <2>1. n < Len(log) /\ n + 1 \in 1..q /\ n + 1 \in 1..Len(log)
    BY <1>4, <1>5, <1>7, SMT
  <2>2. log[n + 1].version_num > version
    BY <1>7, <2>1
  <2>3. log[n + 1].version_num <= base
    BY <1>5, <2>1 DEF Kept
  <2>4. log[n + 1].version_num \in Nat
    BY <1>4, <1>5, <1>6, <2>1, OrderedFields
  <2> QED BY <1>4, <1>5, <2>2, <2>3, <2>4, SMT
<1>13. ASSUME NEW i \in (n + 1)..logDiskSize PROVE pages[i].version_num > version
  <2>1. n < Len(log) /\ n + 1 \in 1..logDiskSize /\ i \in 1..logDiskSize /\ n + 1 \in 1..Len(log)
    BY <1>4, <1>6, <1>7, SMT
  <2>2. pages[n + 1].version_num > version
    BY <1>5, <1>7, <2>1
  <2>3. pages[n + 1].version_num \in Nat /\ pages[i].version_num \in Nat
    BY <1>4, <1>5, <2>1, OrderedFields
  <2>4. n + 1 = i \/ pages[n + 1].version_num <= pages[i].version_num
    BY <1>4, <1>5, <2>1, OrderedPair, SMT
  <2> QED BY <1>4, <2>2, <2>3, <2>4, SMT
<1>14. Recovering(q, base)'
  <2>1. /\ Image(Metadata, pages, q, base)
        /\ version = curr_version /\ curr_version <= disk.curr_version
        /\ childXattr = disk.childXattr
        /\ size = diskSize /\ diskSize <= disk.diskSize
        /\ mapped \subseteq disk.mapped
    BY <1>3 DEF Recovering
  <2>2. \A i \in 1..n : log'[i].version_num <= version
    BY <1>7, <1>8
  <2>3. n \in q..n
    BY <1>12, SMT
  <2> QED BY <1>1, <1>6, <1>7, <1>8, <1>9, <1>12, <1>13, <2>1, <2>2, <2>3 DEF Recovering
<1>15. DiskInv'
  BY <1>1, DiskStays
<1> QED BY <1>1, <1>10, <1>11, <1>14, <1>15 DEF RecInv

\* A log that has become empty needs no recovery.
LEMMA SkipKept ==
    ASSUME RecInv, SkipRecovery
    PROVE  RecInv'
<1>1. /\ phase = "rollback" /\ log = << >> /\ phase' = "gc"
      /\ version' = version /\ log' = log /\ logDiskSize' = logDiskSize
      /\ size' = size /\ diskSize' = diskSize /\ mapped' = mapped /\ dirty' = dirty
      /\ curr_version' = curr_version /\ childXattr' = childXattr
      /\ disk' = disk /\ pages' = pages
  BY DEF SkipRecovery, memVars, logVars, dataVars, xattrs, diskVars
<1>2. RecTypes /\ MountInv
  BY DEF RecInv
<1>3. PICK q \in Nat, base \in Nat : Recovering(q, base)
  BY <1>1 DEF RecInv
<1>4. Metadata' = Metadata
  BY <1>1 DEF Metadata, MetadataWith
<1>5. RecTypes'
  BY <1>1, <1>2, <1>4 DEF RecTypes
<1>6. MountInv'
  BY <1>1, <1>2 DEF MountInv, AsMounted, AsOnDisk
<1>7. DiskInv'
  BY <1>1, DiskStays
<1>8. (q + 1)..Len(log) = {}
  BY <1>1, SMT
<1>9. Recovering(q, base)'
  <2>1. /\ Image(Metadata, pages, q, base) /\ q <= Len(log)
        /\ version = curr_version /\ curr_version <= disk.curr_version
        /\ childXattr = disk.childXattr
        /\ size = diskSize /\ diskSize <= disk.diskSize
        /\ mapped \subseteq disk.mapped
        /\ \A i \in 1..Len(log) : log[i].version_num <= version
        /\ \A i \in (Len(log) + 1)..logDiskSize : pages[i].version_num > version
    BY <1>1, <1>3 DEF Recovering
  <2> QED BY <1>1, <1>4, <1>8, <2>1 DEF Recovering
<1> QED BY <1>1, <1>5, <1>6, <1>7, <1>9 DEF RecInv

\* The scan stops at the last record that was kept before: its first block is
\* there and its version is older than any that is given up.
LEMMA ScanKept ==
    ASSUME RecInv, ScanRecord
    PROVE  RecInv'
<1> DEFINE m == valid_log_end
           rec == log[m]
<1>1. /\ phase = "rollback" /\ phase' = "rollback" /\ m > 0 /\ valid_log_end' = m - 1
      /\ version' = version /\ log' = log /\ logDiskSize' = logDiskSize
      /\ size' = size /\ diskSize' = diskSize /\ mapped' = mapped /\ dirty' = dirty
      /\ curr_version' = curr_version /\ childXattr' = childXattr
      /\ disk' = disk /\ pages' = pages
  BY DEF ScanRecord, memVars, logVars, dataVars, xattrs, diskVars
<1>2. \/ GivenUp(rec) /\ rollback_version' = rollback_version
      \/ ~ GivenUp(rec) /\ ~ FirstMapped(rec) /\ rollback_version' = rec.version_num
  BY DEF ScanRecord
<1>3. RecTypes /\ MountInv
  BY DEF RecInv
<1>4. PICK q \in Nat, base \in Nat : Recovering(q, base)
  BY <1>1 DEF RecInv
<1>5. Len(log) \in Nat /\ logDiskSize \in Nat /\ version \in Nat /\ Len(log) <= logDiskSize
  BY <1>3, TypeFacts
<1>6. /\ q \in 0..Len(log) /\ base <= version
      /\ \A i \in 1..Len(log) : log[i] = pages[i]
      /\ Ordered(log, Len(log))
      /\ Kept(log, q, base, mapped, diskSize, ChildVersions(childXattr))
      /\ \A i \in (q + 1)..logDiskSize : pages[i].version_num > base
  BY <1>1, <1>3, <1>4, RecoveringFacts
<1>7. /\ m \in q..Len(log)
      /\ \/ rollback_version = 0 /\ m = Len(log)
         \/ /\ rollback_version \in (base + 1)..version
            /\ \A i \in (m + 1)..Len(log) : log[i].version_num >= rollback_version
      /\ \A i \in 1..Len(log) : log[i].version_num <= version
  BY <1>1, <1>4 DEF Recovering
<1> HIDE DEF m
<1>8. m \in 1..Len(log)
  BY <1>1, <1>5, <1>6, <1>7, SMT
<1>9. rec \in Record /\ rec.version_num \in Nat /\ rec.physical_start_blk \in Nat
  BY <1>5, <1>6, <1>8, OrderedFields
<1>10. m # q
  <2> SUFFICES ASSUME m = q PROVE FALSE
    OBVIOUS
  <2>1. rec.physical_start_blk \in mapped /\ rec.version_num <= base
    BY <1>1, <1>6, <1>8, SMT DEF Kept
  <2>2. rec.len_blks > 0
    BY <1>9, RecordFields
  <2>3. FirstMapped(rec)
    BY <2>1, <2>2 DEF FirstMapped
  <2>4. GivenUp(rec)
    BY <1>2, <2>3
  <2>5. rollback_version > 0 /\ rec.version_num >= rollback_version
    BY <2>4 DEF GivenUp
  <2>6. rollback_version \in (base + 1)..version
    BY <1>7, <2>5, SMT
  <2> HIDE DEF rec
  <2> QED BY <1>9, <2>1, <2>5, <2>6, SMT
<1>11. m - 1 \in q..Len(log)
  BY <1>5, <1>6, <1>7, <1>8, <1>10, SMT
<1>12. /\ rollback_version' \in (base + 1)..version
       /\ \A i \in ((m - 1) + 1)..Len(log) : log[i].version_num >= rollback_version'
  <2>1. \A i \in ((m - 1) + 1)..Len(log) : i \in 1..Len(log) /\ (i = m \/ i > m)
    BY <1>5, <1>8, SMT
  <2>2. \A i \in 1..Len(log) : log[i].version_num \in Nat
    BY <1>5, <1>6, OrderedFields
  <2>3. CASE GivenUp(rec)
    <3>1. /\ rollback_version > 0 /\ rec.version_num >= rollback_version
          /\ rollback_version' = rollback_version
      BY <1>2, <2>3 DEF GivenUp
    <3>2. /\ rollback_version \in (base + 1)..version
          /\ \A i \in (m + 1)..Len(log) : log[i].version_num >= rollback_version
      BY <1>7, <3>1, SMT
    <3>3. \A i \in 1..Len(log) : i > m => i \in (m + 1)..Len(log)
      BY <1>5, <1>8, SMT
    <3> QED BY <2>1, <3>1, <3>2, <3>3
  <2>4. CASE ~ GivenUp(rec)
    <3>1. rollback_version' = rec.version_num
      BY <1>2, <2>4
    <3>2. m \in (q + 1)..logDiskSize /\ rec = pages[m]
      BY <1>5, <1>6, <1>8, <1>11, SMT
    <3>3. rec.version_num > base /\ rec.version_num <= version
      BY <1>6, <1>7, <1>8, <3>2
    <3>4. \A i \in 1..Len(log) : i > m => log[m].version_num <= log[i].version_num
      BY <1>5, <1>6, <1>8, OrderedPair
    <3>5. rec.version_num >= rec.version_num
      BY <1>9, SMT
    <3>6. \A i \in ((m - 1) + 1)..Len(log) : log[i].version_num >= rec.version_num
      BY <1>9, <2>1, <2>2, <3>4, <3>5
    <3>7. rec.version_num \in (base + 1)..version
      <4> HIDE DEF rec
      <4> QED BY <1>5, <1>9, <3>3, SMT
    <3> QED BY <3>1, <3>6, <3>7
  <2> QED BY <2>3, <2>4
<1>13. Metadata' = Metadata
  BY <1>1 DEF Metadata, MetadataWith
<1>14. RecTypes'
  BY <1>1, <1>3, <1>13 DEF RecTypes
<1>15. MountInv'
  BY <1>1, <1>3 DEF MountInv, AsMounted, AsOnDisk
<1>16. DiskInv'
  BY <1>1, DiskStays
<1>17. Recovering(q, base)'
  <2>1. /\ Image(Metadata, pages, q, base) /\ q <= Len(log)
        /\ version = curr_version /\ curr_version <= disk.curr_version
        /\ childXattr = disk.childXattr
        /\ size = diskSize /\ diskSize <= disk.diskSize
        /\ mapped \subseteq disk.mapped
        /\ \A i \in 1..Len(log) : log[i].version_num <= version
        /\ \A i \in (Len(log) + 1)..logDiskSize : pages[i].version_num > version
    BY <1>1, <1>4 DEF Recovering
  <2> QED BY <1>1, <1>11, <1>12, <1>13, <2>1 DEF Recovering
<1> QED BY <1>1, <1>14, <1>15, <1>16, <1>17 DEF RecInv

\* The end of the records that are left, at which the parent is cut: it is behind
\* each of them and not behind any later record.
LEMMA ExpectedEndFacts ==
    ASSUME NEW lg \in Seq(Record), Ordered(lg, Len(lg))
    PROVE  /\ ExpectedEnd(lg) \in Nat /\ ExpectedEnd(lg) >= OrigBlocks
           /\ \A i \in 1..Len(lg) : RecordEnd(lg[i]) <= ExpectedEnd(lg)
           /\ \/ ExpectedEnd(lg) = OrigBlocks
              \/ \E i \in 1..Len(lg) : ExpectedEnd(lg) = RecordEnd(lg[i])
<1> DEFINE S == {OrigBlocks} \cup {RecordEnd(lg[i]) : i \in DOMAIN lg}
           n == Len(lg)
<1>1. n \in Nat /\ DOMAIN lg = 1..n /\ OrigBlocks \in Nat /\ OrigBlocks > 0
  BY LogAssumption, SMT
<1>2. \A i \in 1..n : RecordEnd(lg[i]) \in Nat /\ RecordEnd(lg[i]) > OrigBlocks
  <2>1. ASSUME NEW i \in 1..n PROVE RecordEnd(lg[i]) \in Nat /\ RecordEnd(lg[i]) > OrigBlocks
    <3>1. /\ lg[i] \in Record /\ lg[i].physical_start_blk \in Nat /\ RecordEnd(lg[i]) \in Nat
          /\ lg[i].physical_start_blk >= OrigBlocks
      BY <1>1, OrderedFields
    <3>2. lg[i].physical_start_blk < RecordEnd(lg[i])
      BY <3>1, ExtentFacts
    <3> QED BY <1>1, <3>1, <3>2, SMT
  <2> QED BY <2>1
<1>3. ExpectedEnd(lg) = Latest(S)
  BY DEF ExpectedEnd
<1>4. OrigBlocks \in S /\ \A i \in 1..n : RecordEnd(lg[i]) \in S
  BY <1>1
<1>5. \A y \in S : y = OrigBlocks \/ \E i \in 1..n : y = RecordEnd(lg[i])
  BY <1>1
<1>6. PICK top \in Nat : S \subseteq 1..top
  <2>1. CASE n = 0
    <3>1. S \subseteq 1..OrigBlocks
      BY <1>1, <1>5, <2>1, SMT
    <3> QED BY <1>1, <3>1
  <2>2. CASE n # 0
    <3>1. n \in 1..n
      BY <1>1, <2>2, SMT
    <3> DEFINE e == RecordEnd(lg[n])
    <3>2. e \in Nat /\ e > OrigBlocks
      BY <1>2, <3>1
    <3>3. ASSUME NEW i \in 1..n PROVE i = n \/ RecordEnd(lg[i]) <= e
      <4>1. i = n \/ i < n
        <5>1. n \in Nat
          BY <1>1
        <5> HIDE DEF n
        <5> QED BY <5>1, SMT
      <4> QED BY <1>1, <3>1, <4>1, OrderedPair
    <3>4. ASSUME NEW i \in 1..n PROVE RecordEnd(lg[i]) \in 1..e
      <4>1. RecordEnd(lg[i]) \in Nat /\ RecordEnd(lg[i]) > OrigBlocks
        BY <1>2
      <4>2. RecordEnd(lg[i]) = e \/ RecordEnd(lg[i]) <= e
        BY <3>3
      <4> HIDE DEF e
      <4> QED BY <1>1, <3>2, <4>1, <4>2, SMT
    <3>5. OrigBlocks \in 1..e
      BY <1>1, <3>2, SMT
    <3> HIDE DEF S, e
    <3>6. S \subseteq 1..e
      BY <1>5, <3>4, <3>5
    <3> QED BY <3>2, <3>6
  <2> QED BY <2>1, <2>2
<1> HIDE DEF S
<1>7. Latest(S) \in S /\ \A y \in S : Latest(S) >= y
  BY <1>4, <1>6, LatestPosition
<1>8. ExpectedEnd(lg) \in S /\ \A y \in S : ExpectedEnd(lg) >= y
  BY <1>3, <1>7
<1>9. ExpectedEnd(lg) \in Nat
  BY <1>1, <1>2, <1>5, <1>8
<1>10. ExpectedEnd(lg) >= OrigBlocks /\ \A i \in 1..n : ExpectedEnd(lg) >= RecordEnd(lg[i])
  BY <1>4, <1>8
<1>11. \A i \in 1..n : RecordEnd(lg[i]) <= ExpectedEnd(lg)
  BY <1>2, <1>9, <1>10
<1> QED BY <1>5, <1>8, <1>9, <1>10, <1>11

\* Rolling back: the version before the oldest one given up is not below base,
\* the records of later versions go, and those left have all their blocks.
LEMMA RollbackKept ==
    ASSUME RecInv, Rollback
    PROVE  RecInv'
<1> DEFINE n == valid_log_end
<1>1. /\ phase = "rollback" /\ phase' = "trim" /\ logDiskSize' = logDiskSize
      /\ size' = size /\ diskSize' = diskSize /\ mapped' = mapped /\ dirty' = dirty
      /\ childXattr' = childXattr /\ disk' = disk /\ pages' = pages
      /\ expected_end' = ExpectedEnd(SubSeq(log, 1, n)) /\ ScanDone
  BY DEF Rollback, dataVars, diskVars
<1>2. \/ /\ rollback_version > 0 /\ log' = SubSeq(log, 1, n)
         /\ version' = RecoveredVersion(rollback_version) /\ curr_version' = version'
      \/ /\ rollback_version = 0 /\ log' = log /\ version' = version
         /\ curr_version' = curr_version
  BY DEF Rollback
<1>3. RecTypes /\ MountInv
  BY DEF RecInv
<1>4. PICK q \in Nat, base \in Nat : Recovering(q, base)
  BY <1>1 DEF RecInv
<1>5. /\ Len(log) \in Nat /\ logDiskSize \in Nat /\ version \in Nat \ {0}
      /\ Len(log) <= logDiskSize /\ log \in Seq(Record) /\ Len(pages) \in Nat
      /\ disk.curr_version \in Nat
  BY <1>3, TypeFacts
<1>6. /\ q \in 0..Len(log) /\ base \in Nat \ {0} /\ base <= version
      /\ \A i \in 1..Len(log) : i \in 1..logDiskSize /\ log[i] = pages[i]
      /\ Ordered(pages, logDiskSize) /\ Ordered(log, Len(log))
      /\ \A k \in (q + 1)..logDiskSize :
            pages[k].physical_start_blk \in mapped =>
               \A i \in (q + 1)..k : Extent(pages[i]) \subseteq mapped
      /\ logDiskSize <= Len(pages) /\ disk.logDiskSize = logDiskSize /\ dirty = {}
      /\ Image(Metadata, pages, q, base)
  BY <1>1, <1>3, <1>4, RecoveringFacts
<1>7. /\ n \in q..Len(log)
      /\ \/ rollback_version = 0 /\ n = Len(log)
         \/ /\ rollback_version \in (base + 1)..version
            /\ \A i \in (n + 1)..Len(log) : log[i].version_num >= rollback_version
      /\ \A i \in 1..Len(log) : log[i].version_num <= version
      /\ \A i \in (Len(log) + 1)..logDiskSize : pages[i].version_num > version
      /\ version = curr_version /\ curr_version <= disk.curr_version
      /\ childXattr = disk.childXattr /\ size = diskSize /\ diskSize <= disk.diskSize
      /\ mapped \subseteq disk.mapped
  BY <1>1, <1>4 DEF Recovering
<1>8. /\ n > 0 => ~ GivenUp(log[n]) /\ FirstMapped(log[n])
  BY <1>1 DEF ScanDone
<1> HIDE DEF n
<1>9. n \in 0..Len(log) /\ q <= n
  BY <1>5, <1>6, <1>7, SMT
<1>10. /\ log' = SubSeq(log, 1, n) /\ log' \in Seq(Record) /\ Len(log') = n
       /\ \A i \in 1..n : log'[i] = log[i] /\ log'[i] = pages[i]
  <2>1. /\ SubSeq(log, 1, n) \in Seq(Record) /\ Len(SubSeq(log, 1, n)) = n
        /\ \A i \in 1..n : SubSeq(log, 1, n)[i] = log[i]
    BY <1>5, <1>9, FirstRecords
  <2>2. n = Len(log) => SubSeq(log, 1, n) = log
    BY <1>5, SMT
  <2>3. log' = SubSeq(log, 1, n)
    BY <1>2, <1>7, <2>2, SMT
  <2>4. \A i \in 1..n : i \in 1..Len(log)
    BY <1>5, <1>9, SMT
  <2> QED BY <1>6, <2>1, <2>3, <2>4
<1>11. /\ version' \in base..version /\ curr_version' = version'
       /\ \A i \in 1..n : log[i].version_num <= version'
       /\ \A i \in (n + 1)..logDiskSize : pages[i].version_num > version'
  <2>1. CASE rollback_version = 0
    <3>1. n = Len(log) /\ version' = version /\ curr_version' = curr_version
      BY <1>2, <1>7, <2>1, SMT
    <3>2. version \in base..version
      BY <1>5, <1>6, SMT
    <3> QED BY <1>7, <3>1, <3>2
  <2>2. CASE rollback_version # 0
    <3>1. /\ rollback_version \in (base + 1)..version
          /\ \A i \in (n + 1)..Len(log) : log[i].version_num >= rollback_version
      BY <1>7, <2>2
    <3>2. rollback_version \in Nat /\ rollback_version > 1 /\ rollback_version <= version
          /\ rollback_version > base
      BY <1>5, <1>6, <3>1, SMT
    <3>3. version' = rollback_version - 1 /\ curr_version' = version'
      BY <1>2, <3>2, SMT DEF RecoveredVersion
    <3>4. version' \in base..version
      BY <1>5, <1>6, <3>2, <3>3, SMT
    <3>5. ASSUME NEW i \in 1..n PROVE log[i].version_num <= version'
      <4>1. n > 0 /\ n \in 1..Len(log) /\ i \in 1..Len(log) /\ (i = n \/ i < n)
        BY <1>5, <1>9, SMT
      <4>2. log[n].version_num \in Nat /\ log[i].version_num \in Nat
        BY <1>5, <1>6, <4>1, OrderedFields
      <4>3. log[n].version_num < rollback_version
        BY <1>8, <3>2, <4>1, <4>2, SMT DEF GivenUp
      <4>4. i = n \/ log[i].version_num <= log[n].version_num
        BY <1>5, <1>6, <4>1, OrderedPair
      <4> QED BY <3>2, <3>3, <4>2, <4>3, <4>4, SMT
    <3>6. ASSUME NEW i \in (n + 1)..logDiskSize PROVE pages[i].version_num > version'
      <4>1. i \in 1..logDiskSize /\ (i \in (n + 1)..Len(log) \/ i \in (Len(log) + 1)..logDiskSize)
        BY <1>5, <1>9, SMT
      <4>2. pages[i].version_num \in Nat
        BY <1>5, <1>6, <4>1, OrderedFields
      <4>3. CASE i \in (n + 1)..Len(log)
        <5>1. pages[i].version_num >= rollback_version
          <6>1. i \in 1..Len(log)
            BY <1>5, <1>9, <4>3, SMT
          <6> QED BY <1>6, <3>1, <4>3, <6>1
        <5> QED BY <3>2, <3>3, <4>2, <5>1, SMT
      <4>4. CASE i \in (Len(log) + 1)..logDiskSize
        <5>1. pages[i].version_num > version
          BY <1>7, <4>4
        <5> QED BY <1>5, <3>2, <3>3, <4>2, <5>1, SMT
      <4> QED BY <4>1, <4>3, <4>4
    <3> QED BY <3>3, <3>4, <3>5, <3>6
  <2> QED BY <2>1, <2>2
<1>12. ASSUME NEW i \in (q + 1)..n PROVE Extent(log'[i]) \subseteq mapped
  <2>1. /\ n > 0 /\ n \in 1..Len(log) /\ n \in (q + 1)..logDiskSize /\ i \in 1..n
        /\ n \in 1..logDiskSize
    BY <1>5, <1>6, <1>9, SMT
  <2>2. pages[n].physical_start_blk \in Nat /\ pages[n].physical_start_blk >= OrigBlocks
    BY <1>5, <1>6, <2>1, OrderedFields
  <2>3. log[n].physical_start_blk \in 0..(OrigBlocks - 1) \cup mapped
    BY <1>8, <2>1 DEF FirstMapped
  <2>4. pages[n].physical_start_blk \in mapped
    BY <1>6, <2>1, <2>2, <2>3, LogAssumption, SMT
  <2>5. Extent(pages[i]) \subseteq mapped
    BY <1>6, <1>12, <2>1, <2>4
  <2> QED BY <1>10, <2>1, <2>5
<1>13. version' \in Nat \ {0} /\ version' <= version /\ base <= version'
  BY <1>5, <1>6, <1>11, SMT
<1>14. RecTypes'
  <2>1. MetadataOK(Metadata)'
    BY <1>1, <1>3, <1>11, <1>13 DEF RecTypes, MetadataOK, Metadata, MetadataWith
  <2>2. Len(log') <= logDiskSize'
    BY <1>1, <1>5, <1>9, <1>10, SMT
  <2> QED BY <1>1, <1>3, <1>10, <1>13, <2>1, <2>2 DEF RecTypes
<1>15. MountInv'
  <2>1. n <= Len(pages)
    BY <1>5, <1>6, <1>9, SMT
  <2> QED BY <1>1, <1>6, <1>10, <2>1 DEF MountInv, AsOnDisk
<1>16. DiskInv'
  BY <1>1, DiskStays
<1>17. Image(Metadata', pages, q, base)
  <2>1. /\ Metadata'.curr_version = version' /\ Metadata'.childXattr = childXattr
        /\ Metadata'.logDiskSize = logDiskSize /\ Metadata'.diskSize = diskSize
        /\ Metadata'.mapped = mapped
    BY <1>1, <1>11 DEF Metadata, MetadataWith
  <2>2. MetadataOK(Metadata) /\ MetadataOK(Metadata') /\ diskSize <= diskSize
    BY <1>3, <1>14, TypeFacts, SMT DEF RecTypes
  <2> QED BY <1>6, <1>13, <2>1, <2>2, MetadataFields, ImageGrows
<1>18. Recovering(q, base)'
  <2>1. curr_version' <= disk.curr_version
    BY <1>5, <1>7, <1>11, <1>13, SMT
  <2>2. expected_end' = ExpectedEnd(log')
    BY <1>1, <1>10 DEF n
  <2>3. \A i \in 1..n : log'[i].version_num <= version'
    BY <1>10, <1>11
  <2> QED BY <1>1, <1>7, <1>9, <1>10, <1>11, <1>12, <1>17, <2>1, <2>2, <2>3 DEF Recovering
<1> QED BY <1>1, <1>14, <1>15, <1>16, <1>18 DEF RecInv

\* Trimming the parent behind the last record that is left takes no block that a
\* record names, and the first blocks of all records that were cut.
LEMMA TrimKept ==
    ASSUME RecInv, Trim
    PROVE  RecInv'
<1> DEFINE e == expected_end
           n == Len(log)
<1>1. /\ phase = "trim" /\ phase' = "gc" /\ version' = version
      /\ log' = log /\ logDiskSize' = logDiskSize
      /\ curr_version' = curr_version /\ childXattr' = childXattr
      /\ disk' = disk /\ pages' = pages
  BY DEF Trim, logVars, xattrs, diskVars
<1>2. \/ /\ size > e /\ size' = e /\ diskSize' = e
         /\ mapped' = {b \in mapped : b < e} /\ dirty' = {b \in dirty : b < e}
      \/ size' = size /\ diskSize' = diskSize /\ mapped' = mapped /\ dirty' = dirty
  BY DEF Trim, dataVars
<1>3. RecTypes /\ MountInv
  BY DEF RecInv
<1>4. PICK q \in Nat, base \in Nat : Recovering(q, base)
  BY <1>1 DEF RecInv
<1>5. /\ n \in Nat /\ logDiskSize \in Nat /\ n <= logDiskSize /\ log \in Seq(Record)
      /\ mapped \subseteq OrigBlocks..(diskSize - 1) /\ diskSize \in Nat
      /\ disk.diskSize \in Nat
  BY <1>3, TypeFacts
<1>6. /\ q \in 0..n /\ base \in Nat \ {0}
      /\ \A i \in 1..n : i \in 1..logDiskSize /\ log[i] = pages[i]
      /\ Ordered(pages, logDiskSize) /\ Ordered(log, n)
      /\ Kept(pages, q, base, mapped, diskSize, ChildVersions(childXattr))
      /\ \A i \in (q + 1)..logDiskSize : pages[i].version_num > base
      /\ \A k \in (q + 1)..logDiskSize :
            pages[k].physical_start_blk \in mapped =>
               \A i \in (q + 1)..k : Extent(pages[i]) \subseteq mapped
      /\ logDiskSize <= Len(pages) /\ disk.logDiskSize = logDiskSize /\ dirty = {}
      /\ Image(Metadata, pages, q, base)
  BY <1>1, <1>3, <1>4, RecoveringFacts
<1>7. /\ \A i \in 1..n : log[i].version_num <= version
      /\ \A i \in (n + 1)..logDiskSize : pages[i].version_num > version
      /\ version = curr_version /\ curr_version <= disk.curr_version
      /\ childXattr = disk.childXattr /\ size = diskSize /\ diskSize <= disk.diskSize
      /\ mapped \subseteq disk.mapped /\ e = ExpectedEnd(log)
      /\ \A i \in (q + 1)..n : Extent(log[i]) \subseteq mapped
  BY <1>1, <1>4 DEF Recovering
<1>8. /\ e \in Nat /\ e >= OrigBlocks /\ \A i \in 1..n : RecordEnd(log[i]) <= e
      /\ e = OrigBlocks \/ \E i \in 1..n : e = RecordEnd(log[i])
  BY <1>5, <1>6, <1>7, ExpectedEndFacts
<1>9. MountInv'
  <2>1. dirty' = {}
    BY <1>2, <1>6
  <2> QED BY <1>1, <1>3, <1>6, <2>1 DEF MountInv, AsMounted, AsOnDisk
<1>10. DiskInv'
  BY <1>1, DiskStays
<1>11. dirty' = {}
  BY <1>2, <1>6
<1>12. CASE size' = size /\ diskSize' = diskSize /\ mapped' = mapped /\ dirty' = dirty
  <2>1. Metadata' = Metadata
    BY <1>1, <1>12 DEF Metadata, MetadataWith
  <2>2. RecTypes'
    BY <1>1, <1>3, <1>12, <2>1 DEF RecTypes
  <2>3. q <= n
    BY <1>5, <1>6, SMT
  <2>4. Recovering(q, base)'
    BY <1>1, <1>6, <1>7, <1>12, <2>1, <2>3 DEF Recovering
  <2> QED BY <1>1, <1>9, <1>10, <2>2, <2>4 DEF RecInv
<1>13. CASE /\ size > e /\ size' = e /\ diskSize' = e /\ mapped' = {b \in mapped : b < e}
  <2> HIDE DEF e, n
  <2>1. /\ Metadata'.curr_version = curr_version /\ Metadata'.childXattr = childXattr
        /\ Metadata'.logDiskSize = logDiskSize /\ Metadata'.diskSize = e
        /\ Metadata'.mapped = mapped'
    BY <1>1, <1>13 DEF Metadata, MetadataWith
  <2>2. mapped' \subseteq OrigBlocks..(e - 1)
    <3>1. ASSUME NEW b \in mapped' PROVE b \in OrigBlocks..(e - 1)
      <4>1. b \in mapped /\ b < e
        BY <1>13
      <4>2. b \in OrigBlocks..(diskSize - 1)
        BY <1>5, <4>1
      <4> QED BY <1>5, <1>8, <4>1, <4>2, LogAssumption, SMT
    <3> QED BY <3>1
  <2>3. MetadataOK(Metadata')
    BY <1>3, <1>8, <2>1, <2>2, TypeFacts DEF MetadataOK
  <2>4. RecTypes'
    <3>1. dirty' \subseteq OrigBlocks..(size' - 1) /\ size' \in Nat /\ diskSize' <= size'
      BY <1>8, <1>11, <1>13
    <3> QED BY <1>1, <1>3, <2>3, <3>1 DEF RecTypes
  <2>5. ASSUME NEW i \in 1..n, NEW b \in Extent(log[i]), b \in mapped PROVE b \in mapped'
    <3>1. log[i] \in Record /\ RecordEnd(log[i]) \in Nat
      BY <1>5, <1>6, OrderedFields
    <3>2. b \in Int /\ b < RecordEnd(log[i]) /\ RecordEnd(log[i]) <= e
      BY <1>8, <3>1, ExtentFacts
    <3>3. b < e
      BY <1>8, <3>1, <3>2, SMT
    <3> QED BY <1>13, <2>5, <3>3
  <2>6. Kept(pages, q, base, mapped', e, ChildVersions(childXattr))
    <3>1. \A i \in 1..q : /\ i \in 1..n /\ pages[i] = log[i] /\ log[i] \in Record
                          /\ pages[i].version_num <= base
      <4>1. \A i \in 1..q : i \in 1..n /\ pages[i] = log[i]
        BY <1>5, <1>6, SMT
      <4>2. \A i \in 1..q : pages[i].version_num <= base
        BY <1>6 DEF Kept
      <4> QED BY <1>5, <1>6, <4>1, <4>2, OrderedFields
    <3>2. ASSUME q > 0 PROVE pages[q].physical_start_blk \in mapped' /\ RecordEnd(pages[q]) <= e
      <4>1. q \in 1..q
        BY <3>2, SMT
      <4>2. pages[q].physical_start_blk \in mapped
        BY <1>6, <3>2 DEF Kept
      <4>3. log[q].physical_start_blk \in Extent(log[q])
        BY <3>1, <4>1, ExtentFacts
      <4> QED BY <1>8, <2>5, <3>1, <4>1, <4>2, <4>3
    <3>3. ASSUME NEW v \in Nat, NEW L \in Nat, NEW i \in 1..q,
                 v >= base \/ v \in ChildVersions(childXattr), Newest(pages, q, v, i, L)
          PROVE  PhysicalOf(pages[i], L) \in mapped'
      <4>1. PhysicalOf(pages[i], L) \in mapped
        BY <1>6, <3>3 DEF Kept
      <4>2. Covers(pages[i], L)
        BY <3>3 DEF Newest
      <4>3. PhysicalOf(log[i], L) \in Extent(log[i])
        BY <3>1, <4>2, ExtentFacts
      <4> QED BY <2>5, <3>1, <4>1, <4>3
    <3> QED BY <3>1, <3>2, <3>3 DEF Kept
  <2>7. ASSUME NEW k \in (q + 1)..logDiskSize, pages[k].physical_start_blk \in mapped'
        PROVE  k <= n
    <3> SUFFICES ASSUME ~ (k <= n) PROVE FALSE
      OBVIOUS
    <3>1. k \in 1..logDiskSize /\ \A i \in 1..n : i \in 1..logDiskSize /\ i < k
      BY <1>5, <1>6, SMT
    <3>2. pages[k].physical_start_blk \in Nat /\ pages[k].physical_start_blk >= OrigBlocks
      BY <1>5, <1>6, <3>1, OrderedFields
    <3>3. \A i \in 1..n : RecordEnd(log[i]) <= pages[k].physical_start_blk
      BY <1>5, <1>6, <3>1, OrderedPair
    <3>4. e <= pages[k].physical_start_blk
      <4>1. CASE e = OrigBlocks
        BY <1>8, <3>2, <4>1
      <4>2. CASE e # OrigBlocks
        BY <1>8, <3>3, <4>2
      <4> QED BY <4>1, <4>2
    <3>5. pages[k].physical_start_blk < e
      BY <1>13, <2>7
    <3> QED BY <1>8, <3>2, <3>4, <3>5, SMT
  <2>8. ASSUME NEW k \in (q + 1)..logDiskSize, pages[k].physical_start_blk \in mapped',
               NEW i \in (q + 1)..k
        PROVE  Extent(pages[i]) \subseteq mapped'
    <3>1. k <= n
      BY <2>7, <2>8
    <3>2. i \in 1..n
      BY <1>5, <1>6, <3>1, SMT
    <3>3. pages[k].physical_start_blk \in mapped
      BY <1>13, <2>8
    <3>4. Extent(pages[i]) \subseteq mapped
      BY <1>6, <2>8, <3>3
    <3>5. pages[i] = log[i]
      BY <1>6, <3>2
    <3> QED BY <2>5, <3>2, <3>4, <3>5
  <2>9. Image(Metadata', pages, q, base)
    <3>1. /\ q \in 0..logDiskSize /\ base <= curr_version
      BY <1>6, MetadataFields DEF Image
    <3> QED BY <1>6, <2>1, <2>6, <2>8, <3>1 DEF Image
  <2>10. \A i \in (q + 1)..n : Extent(log[i]) \subseteq mapped'
    <3>1. \A i \in (q + 1)..n : i \in 1..n
      BY <1>5, <1>6, SMT
    <3> QED BY <1>7, <2>5, <3>1
  <2>11. /\ q <= n /\ diskSize' <= disk.diskSize
    BY <1>5, <1>6, <1>7, <1>8, <1>13, SMT
  <2>12. mapped' \subseteq disk.mapped
    BY <1>7, <1>13
  <2>13. Recovering(q, base)'
    <3> USE DEF n
    <3> QED BY <1>1, <1>7, <1>13, <2>9, <2>10, <2>11, <2>12 DEF Recovering
  <2> QED BY <1>1, <1>9, <1>10, <2>4, <2>13 DEF RecInv
<1> QED BY <1>2, <1>12, <1>13

\* Punching: what the open parent and its children can read is spared, so that
\* the records there are now are the ones a later recovery will find intact.
LEMMA PunchKept ==
    ASSUME RecInv, PunchGarbage
    PROVE  RecInv'
<1> DEFINE n == Len(log)
           G == Garbage(log, ActiveVersions)
           vs == ChildVersions(childXattr)
<1>1. /\ phase = "gc" /\ phase' = "open" /\ version' = version
      /\ log' = log /\ logDiskSize' = logDiskSize
      /\ size' = size /\ diskSize' = diskSize /\ dirty' = dirty
      /\ curr_version' = curr_version /\ childXattr' = childXattr
      /\ disk' = disk /\ pages' = pages /\ mapped' = mapped \ G
  BY DEF PunchGarbage, logVars, xattrs, diskVars
<1>2. RecTypes /\ MountInv
  BY DEF RecInv
<1>3. PICK q \in Nat, base \in Nat : Recovering(q, base)
  BY <1>1 DEF RecInv
<1>4. /\ n \in Nat /\ logDiskSize \in Nat /\ n <= logDiskSize /\ log \in Seq(Record)
      /\ mapped \subseteq OrigBlocks..(diskSize - 1) /\ diskSize \in Nat
      /\ disk.diskSize \in Nat /\ version \in Nat \ {0} /\ childXattr \in [Children -> Nat]
      /\ DOMAIN log = 1..n /\ Len(pages) \in Nat
  BY <1>2, TypeFacts, SMT
<1>5. /\ q \in 0..n /\ base \in Nat \ {0} /\ base <= version
      /\ \A i \in 1..n : i \in 1..logDiskSize /\ log[i] = pages[i]
      /\ Ordered(pages, logDiskSize) /\ Ordered(log, n)
      /\ Kept(log, q, base, mapped, diskSize, vs)
      /\ \A k \in (q + 1)..logDiskSize :
            pages[k].physical_start_blk \in mapped =>
               \A i \in (q + 1)..k : Extent(pages[i]) \subseteq mapped
      /\ logDiskSize <= Len(pages) /\ disk.logDiskSize = logDiskSize /\ dirty = {}
  BY <1>1, <1>2, <1>3, RecoveringFacts
<1>6. /\ \A i \in 1..n : log[i].version_num <= version
      /\ \A i \in (n + 1)..logDiskSize : pages[i].version_num > version
      /\ version = curr_version /\ curr_version <= disk.curr_version
      /\ childXattr = disk.childXattr /\ size = diskSize /\ diskSize <= disk.diskSize
      /\ mapped \subseteq disk.mapped
      /\ \A i \in (q + 1)..n : Extent(log[i]) \subseteq mapped
  BY <1>1, <1>3 DEF Recovering
<1>7. GoodLog(log)
  BY <1>4, <1>5, OrderedGood
<1>8. ActiveVersions \subseteq Nat /\ 0 \in ActiveVersions /\ version \in ActiveVersions
      /\ vs \subseteq ActiveVersions
  BY <1>4, SMT DEF ActiveVersions, ChildVersions
<1> HIDE DEF n, G, vs
<1>9. ASSUME NEW b \in G
      PROVE  \E i \in 1..n, j \in 1..n : j < i /\ b \in Int /\ b < RecordEnd(log[j])
  <2>1. PICK i \in DOMAIN log, j \in DOMAIN log : j < i /\ b \in Extent(log[j])
    BY <1>7, <1>8, <1>9, GarbageOwned DEF G
  <2>2. log[j] \in Record
    BY <1>4, SMT
  <2> QED BY <1>4, <2>1, <2>2, ExtentFacts
<1>10. \A i \in 1..n : log[i] \in Record /\ RecordEnd(log[i]) \in Nat
                       /\ log[i].version_num \in Nat
  BY <1>4, <1>5, OrderedFields
<1>11. ASSUME NEW i \in 1..n PROVE RecordEnd(log[i]) <= diskSize
  <2>1. CASE i \in (q + 1)..n
    <3> DEFINE s == log[i].physical_start_blk
               len == log[i].len_blks
    <3>1. Extent(log[i]) \subseteq OrigBlocks..(diskSize - 1)
      BY <1>4, <1>6, <2>1
    <3>2. s \in Nat /\ len \in Nat /\ len > 0 /\ RecordEnd(log[i]) = s + len
      BY <1>10, RecordFields DEF RecordEnd
    <3>3. Extent(log[i]) = s..(RecordEnd(log[i]) - 1)
      BY DEF Extent
    <3> HIDE DEF s, len
    <3>4. RecordEnd(log[i]) - 1 \in Extent(log[i])
      BY <3>2, <3>3, SMT
    <3>5. RecordEnd(log[i]) - 1 \in OrigBlocks..(diskSize - 1)
      BY <3>1, <3>4
    <3> QED BY <1>4, <1>10, <3>5, LogAssumption, SMT
  <2>2. CASE i \notin (q + 1)..n
    <3>1. q > 0 /\ q \in 1..n /\ (i = q \/ i < q)
      BY <1>4, <1>5, <2>2, SMT
    <3>2. RecordEnd(log[q]) <= diskSize
      BY <1>5, <3>1 DEF Kept
    <3>3. i = q \/ RecordEnd(log[i]) <= RecordEnd(log[q])
      BY <1>4, <1>5, <3>1, OrderedPair
    <3> QED BY <1>4, <1>10, <3>1, <3>2, <3>3, SMT
  <2> QED BY <2>1, <2>2
<1>12. ASSUME NEW v \in Nat, NEW L \in Nat, NEW i \in 1..n,
              v >= version \/ v \in vs, Newest(log, n, v, i, L)
       PROVE  PhysicalOf(log[i], L) \in mapped'
  <2>1. Covers(log[i], L)
    BY <1>12 DEF Newest
  <2>2. PhysicalOf(log[i], L) \in mapped
    <3>1. CASE i \in (q + 1)..n
      <4>1. PhysicalOf(log[i], L) \in Extent(log[i])
        BY <1>10, <2>1, ExtentFacts
      <4> QED BY <1>6, <3>1, <4>1
    <3>2. CASE i \notin (q + 1)..n
      <4>1. i \in 1..q
        BY <1>4, <1>5, <3>2, SMT
      <4>2. Newest(log, q, v, i, L)
        BY <1>4, <1>5, <1>12, <4>1, NewestPrefix
      <4>3. v >= base \/ v \in vs
        BY <1>4, <1>5, <1>12, SMT
      <4> QED BY <1>5, <4>1, <4>2, <4>3 DEF Kept
    <3> QED BY <3>1, <3>2
  <2>3. PICK a \in ActiveVersions : Newest(log, n, a, i, L)
    <3>1. CASE v \in vs
      BY <1>8, <1>12, <3>1
    <3>2. CASE v >= version
      <4>1. \A j \in 1..n : log[j].version_num <= version /\ log[j].version_num <= v
        BY <1>4, <1>6, <1>10, <3>2, SMT
      <4>2. Newest(log, n, version, i, L)
        BY <1>12, <4>1 DEF Newest
      <4> QED BY <1>8, <4>2
    <3> QED BY <1>12, <3>1, <3>2
  <2>4. a \in Nat
    BY <1>8
  <2>5. Lookup(log, a, L) = PhysicalOf(log[i], L)
    BY <1>7, <2>3, <2>4, NewestLookup, SMT DEF n
  <2>6. Lookup(log, a, L) \notin G
    BY <1>7, <1>8, GcSparesActive DEF G
  <2> QED BY <1>1, <2>2, <2>5, <2>6
<1>13. Kept(log, n, version, mapped', diskSize, vs)
  <2>1. ASSUME n > 0 PROVE log[n].physical_start_blk \in mapped' /\ RecordEnd(log[n]) <= diskSize
    <3>1. n \in 1..n
      BY <1>4, <2>1, SMT
    <3>2. log[n].physical_start_blk \in mapped
      <4>1. CASE q = n
        BY <1>5, <2>1, <4>1 DEF Kept
      <4>2. CASE q # n
        <5>1. n \in (q + 1)..n
          BY <1>4, <1>5, <4>2, SMT
        <5> QED BY <1>6, <1>10, <3>1, <5>1, ExtentFacts
      <4> QED BY <4>1, <4>2
    <3>3. log[n].physical_start_blk \notin G
      <4> SUFFICES ASSUME log[n].physical_start_blk \in G PROVE FALSE
        OBVIOUS
      <4>1. PICK i \in 1..n, j \in 1..n : j < i /\ log[n].physical_start_blk < RecordEnd(log[j])
        BY <1>9
      <4>2. j < n
        BY <1>4, <4>1, SMT
      <4>3. RecordEnd(log[j]) <= log[n].physical_start_blk
        BY <1>4, <1>5, <3>1, <4>2, OrderedPair
      <4>4. log[n].physical_start_blk \in Nat /\ RecordEnd(log[j]) \in Nat
        BY <1>10, <3>1, RecordFields
      <4> QED BY <4>1, <4>3, <4>4, SMT
    <3> QED BY <1>1, <1>11, <3>1, <3>2, <3>3
  <2> QED BY <1>6, <1>12, <2>1 DEF Kept
<1>14. Ordered(log, n) /\ n \in Nat /\ mapped' \subseteq disk.mapped /\ diskSize <= diskSize
  <2>1. mapped' \subseteq disk.mapped
    BY <1>1, <1>6
  <2>2. n \in Nat /\ diskSize <= diskSize
    BY <1>4, SMT
  <2> QED BY <1>5, <2>1, <2>2
<1>15. Kept(log, n, version, disk.mapped, disk.diskSize, vs)
  BY <1>4, <1>6, <1>13, <1>14, KeptGrows
<1>16. /\ Metadata'.curr_version = version /\ Metadata'.childXattr = childXattr
       /\ Metadata'.logDiskSize = logDiskSize /\ Metadata'.diskSize = diskSize
       /\ Metadata'.mapped = mapped'
  BY <1>1, <1>6 DEF Metadata, MetadataWith
<1>17. Image(Metadata', pages, n, version)
  <2>1. n \in 0..logDiskSize
    BY <1>4, SMT
  <2>2. Kept(pages, n, version, mapped', diskSize, vs)
    <3>1. \A i \in 1..n : pages[i] = log[i]
      BY <1>5
    <3> QED BY <1>13, <1>14, <3>1, KeptSame
  <2>3. ASSUME NEW k \in (n + 1)..logDiskSize, pages[k].physical_start_blk \in mapped',
               NEW i \in (n + 1)..k, NEW b \in Extent(pages[i])
        PROVE  b \in mapped'
    <3>1. k \in (q + 1)..logDiskSize /\ i \in (q + 1)..k /\ i \in 1..logDiskSize
      BY <1>4, <1>5, SMT
    <3>2. b \in mapped
      <4>1. pages[k].physical_start_blk \in mapped
        BY <1>1, <2>3
      <4> QED BY <1>5, <2>3, <3>1, <4>1
    <3>3. b \notin G
      <4> SUFFICES ASSUME b \in G PROVE FALSE
        OBVIOUS
      <4>1. PICK h \in 1..n, j \in 1..n : j < h /\ b \in Int /\ b < RecordEnd(log[j])
        BY <1>9
      <4>2. j \in 1..logDiskSize /\ j < i /\ log[j] = pages[j]
        BY <1>4, <1>5, SMT
      <4>3. RecordEnd(pages[j]) <= pages[i].physical_start_blk
        BY <1>4, <1>5, <3>1, <4>2, OrderedPair
      <4>4. pages[i] \in Record /\ pages[i].physical_start_blk \in Nat /\ RecordEnd(pages[j]) \in Nat
        BY <1>4, <1>5, <3>1, <4>2, OrderedFields
      <4>5. pages[i].physical_start_blk <= b
        BY <2>3, <4>4, ExtentFacts
      <4> QED BY <4>1, <4>2, <4>3, <4>4, <4>5, SMT
    <3> QED BY <1>1, <3>2, <3>3
  <2>4. \A k \in (n + 1)..logDiskSize : pages[k].physical_start_blk \in mapped' =>
           \A i \in (n + 1)..k : Extent(pages[i]) \subseteq mapped'
    BY <2>3
  <2>5. version \in Nat \ {0} /\ version <= version
    BY <1>4, SMT
  <2> QED BY <1>5, <1>6, <1>16, <2>1, <2>2, <2>4, <2>5 DEF Image, vs
<1>18. PICK q1 \in Nat, base1 \in Nat : q1 = n /\ base1 = version
  BY <1>4
<1>19. Opened(q1, base1)'
  <2>1. q1 \in 0..n /\ base1 \in Nat \ {0} /\ q1 <= disk.logDiskSize
    BY <1>4, <1>5, <1>18, SMT
  <2>2. \A i \in 1..n : log[i].version_num <= version + 1 /\ RecordEnd(log[i]) <= size
    BY <1>4, <1>6, <1>10, <1>11, SMT
  <2>3. (q1 + 1)..n = {}
    BY <1>4, <1>18, SMT
  <2>4. base1 <= curr_version /\ base1 <= disk.curr_version /\ curr_version <= version
    BY <1>4, <1>6, <1>18, SMT
  <2>5. /\ Kept(log, q1, base1, mapped', diskSize, ChildVersions(childXattr))
        /\ Kept(log, q1, base1, mapped', diskSize, ChildVersions(disk.childXattr))
        /\ Kept(log, q1, base1, disk.mapped, disk.diskSize, ChildVersions(disk.childXattr))
    BY <1>6, <1>13, <1>15, <1>18 DEF vs
  <2>6. Image(Metadata', pages, q1, base1) /\ Len(log) = q1 /\ Len(log) = n
    BY <1>17, <1>18 DEF n
  <2>7. /\ phase' = "open" /\ version' = version /\ log' = log /\ size' = size
        /\ diskSize' = diskSize /\ curr_version' = curr_version /\ childXattr' = childXattr
        /\ disk' = disk /\ pages' = pages
    BY <1>1
  <2>8. \A i \in (q1 + 1)..n : /\ log[i].version_num > base1
                               /\ Extent(log[i]) \subseteq mapped' \cup dirty'
    BY <2>3
  <2> QED BY <1>14, <2>1, <2>2, <2>4, <2>5, <2>6, <2>7, <2>8 DEF Opened
<1>20. RecTypes'
  <2>1. MetadataOK(Metadata)'
    BY <1>1, <1>2 DEF RecTypes, MetadataOK, Metadata, MetadataWith
  <2> QED BY <1>1, <1>2, <2>1 DEF RecTypes
<1>21. MountInv'
  <2>1. AsOnDisk(n)
    BY <1>1, <1>2 DEF MountInv, AsMounted, n
  <2> QED BY <1>1, <1>5, <2>1 DEF MountInv, AsOnDisk, n
<1>22. phase # "open" /\ phase' = "open" /\ disk' = disk /\ pages' = pages
  BY <1>1
<1>23. DiskInv'
  BY <1>22, DiskStays
<1> QED BY <1>19, <1>20, <1>21, <1>22, <1>23 DEF RecInv

-----------------------------------------------------------------------------
(* The theorems.                                                           *)

\* The versions stay within what a lookup can load.
VersionsFit == version < MAX_VERSIONS

\* One step of the parent, of the disk or of recovery.
LEMMA StepKept ==
    ASSUME DiskAsExpected => RecInv, VersionsFit, [Next]_vars
    PROVE  (DiskAsExpected => RecInv)'
<1> SUFFICES ASSUME DiskAsExpected' PROVE RecInv'
  OBVIOUS
<1>1. CASE UNCHANGED vars
  <2>1. seen' = seen /\ UNCHANGED <<control, version, logVars, dataVars, xattrs, diskVars>>
    BY <1>1 DEF vars, history, memVars
  <2>2. DiskAsExpected
    BY <2>1 DEF DiskAsExpected
  <2> QED BY <2>1, <2>2, StutterKept
<1>2. CASE Next
  <2>1. seen \subseteq seen'
    <3>1. CASE \E ps \in LogPages : Crash(ps)
      BY <3>1 DEF Crash
    <3>2. CASE ~ \E ps \in LogPages : Crash(ps)
      BY <1>2, <3>2 DEF Next, Write, BeginTransaction, TxnWrite, EndTransaction, Close,
         LastClose, Commit, Unmount, TruncateLogToVersion, SkipRecovery, ScanRecord,
         Rollback, Trim, PunchGarbage, history
    <3> QED BY <3>1, <3>2
  <2>2. RecInv
    BY <2>1 DEF DiskAsExpected
  <2>3. version \in Nat
    BY <2>2 DEF RecInv, RecTypes
  <2>4. ASSUME NEW L \in LogicalBlocks, NEW len \in Lens, Write(L, len) PROVE RecInv'
    <3>1. /\ phase = "open" /\ version' = version + 1 /\ AppendRecord(version + 1, L, len)
          /\ UNCHANGED <<control, diskSize, mapped, xattrs, diskVars>>
      BY <2>4 DEF Write
    <3> QED BY <2>2, <3>1, AppendKept DEF VersionsFit
  <2>5. ASSUME NEW L \in LogicalBlocks, NEW len \in Lens, TxnWrite(L, len) PROVE RecInv'
    <3>1. /\ phase = "open" /\ version' = version /\ AppendRecord(version + 1, L, len)
          /\ UNCHANGED <<control, diskSize, mapped, xattrs, diskVars>>
      BY <2>5 DEF TxnWrite
    <3> QED BY <2>2, <3>1, AppendKept DEF VersionsFit
  <2>6. CASE BeginTransaction
    BY <2>2, <2>6, StutterKept DEF BeginTransaction
  <2>7. CASE EndTransaction
    BY <2>2, <2>7, EndKept
  <2>8. childXattr \in [Children -> Nat] /\ curr_version \in Nat
    BY <2>2, TypeFacts DEF RecInv
  <2>9. CASE Close
    <3>1. /\ phase = "open" /\ curr_version' = version /\ childXattr' = childXattr
          /\ UNCHANGED <<control, version, logVars, dataVars, diskVars>>
      BY <2>9 DEF Close
    <3>2. /\ childXattr' \in [Children -> Nat]
          /\ \A c \in Children : childXattr'[c] \in {childXattr[c], curr_version}
      BY <2>8, <3>1
    <3> QED BY <2>2, <3>1, <3>2, CloseKept
  <2>10. ASSUME NEW cs \in SUBSET Children, LastClose(cs) PROVE RecInv'
    <3>1. /\ phase = "open" /\ curr_version' = version
          /\ childXattr' = [c \in Children |-> IF c \in cs THEN curr_version ELSE childXattr[c]]
          /\ UNCHANGED <<control, version, logVars, dataVars, diskVars>>
      BY <2>10 DEF LastClose
    <3>2. /\ childXattr' \in [Children -> Nat]
          /\ \A c \in Children : childXattr'[c] \in {childXattr[c], curr_version}
      BY <2>8, <3>1
    <3> QED BY <2>2, <3>1, <3>2, CloseKept
  <2>11. ASSUME NEW bs \in SUBSET dirty, Commit(bs) PROVE RecInv'
    BY <2>2, <2>11, CommitKept
  <2>12. ASSUME NEW ps \in LogPages, Crash(ps) PROVE RecInv'
    BY <2>2, <2>12, CrashKept
  <2>13. CASE Unmount
    BY <2>2, <2>13, UnmountKept
  <2>14. CASE TruncateLogToVersion
    BY <2>2, <2>14, TruncateKept
  <2>15. CASE SkipRecovery
    BY <2>2, <2>15, SkipKept
  <2>16. CASE ScanRecord
    BY <2>2, <2>16, ScanKept
  <2>17. CASE Rollback
    BY <2>2, <2>17, RollbackKept
  <2>18. CASE Trim
    BY <2>2, <2>18, TrimKept
  <2>19. CASE PunchGarbage
    BY <2>2, <2>19, PunchKept
  <2> QED BY <1>2, <2>4, <2>5, <2>6, <2>7, <2>9, <2>10, <2>11, <2>12, <2>13, <2>14,
             <2>15, <2>16, <2>17, <2>18, <2>19 DEF Next
<1> QED BY <1>1, <1>2

\* The invariant gives what an open parent promises its readers.
LEMMA InvariantReadable ==
    ASSUME DiskAsExpected => RecInv
    PROVE  ActiveReadable
<1> SUFFICES ASSUME phase = "open", DiskAsExpected,
                    NEW v \in {version} \cup {childXattr[c] : c \in Children},
                    NEW L \in ReadBlocks, Lookup(log, v, L) >= OrigBlocks
             PROVE  Lookup(log, v, L) \in mapped \cup dirty
  BY DEF ActiveReadable
<1>1. RecTypes /\ \E q \in Nat, base \in Nat : Opened(q, base)
  BY DEF RecInv
<1>2. PICK q \in Nat, base \in Nat : Opened(q, base)
  BY <1>1
<1>3. /\ log \in Seq(Record) /\ Len(log) \in Nat /\ version \in Nat /\ curr_version \in Nat
      /\ childXattr \in [Children -> Nat] /\ DOMAIN log = 1..Len(log)
  BY <1>1, TypeFacts, SMT
<1>4. /\ q \in 0..Len(log) /\ base <= curr_version /\ curr_version <= version
      /\ Ordered(log, Len(log))
      /\ \A i \in (q + 1)..Len(log) : Extent(log[i]) \subseteq mapped \cup dirty
      /\ Kept(log, q, base, mapped, diskSize, ChildVersions(childXattr))
  BY <1>2 DEF Opened
<1>5. v \in Nat /\ (v >= base \/ v \in ChildVersions(childXattr))
  BY <1>3, <1>4, SMT DEF ChildVersions
<1>6. L \in Nat
  <2>1. PICK a \in LogicalBlocks : \E len \in Lens : L \in a..(a + len - 1)
    BY SMT DEF ReadBlocks
  <2>2. PICK len \in Lens : L \in a..(a + len - 1)
    BY <2>1
  <2>3. a \in Nat /\ len \in Nat
    BY RecoveryAssumption
  <2> QED BY <2>2, <2>3, SMT
<1>7. GoodLog(log)
  BY <1>3, <1>4, OrderedGood
<1>8. PICK i \in DOMAIN log : /\ Newest(log, Len(log), v, i, L)
                              /\ Lookup(log, v, L) = PhysicalOf(log[i], L)
  BY <1>5, <1>6, <1>7, LookupNewest
<1>9. Covers(log[i], L) /\ log[i] \in Record
  BY <1>3, <1>8, SMT DEF Newest
<1>10. CASE i \in (q + 1)..Len(log)
  <2>1. PhysicalOf(log[i], L) \in Extent(log[i])
    BY <1>6, <1>9, ExtentFacts
  <2> QED BY <1>4, <1>8, <1>10, <2>1
<1>11. CASE i \notin (q + 1)..Len(log)
  <2>1. i \in 1..q
    BY <1>3, <1>4, <1>11, SMT
  <2>2. Newest(log, q, v, i, L)
    BY <1>3, <1>4, <1>8, <2>1, NewestPrefix
  <2>3. PhysicalOf(log[i], L) \in mapped
    BY <1>4, <1>5, <1>6, <2>1, <2>2 DEF Kept
  <2> QED BY <1>8, <2>3
<1> QED BY <1>10, <1>11

\* The invariant gives that the data area is append-only.
LEMMA InvariantDisjoint ==
    ASSUME DiskAsExpected => RecInv
    PROVE  ExtentsDisjoint
<1> SUFFICES ASSUME phase = "open", DiskAsExpected, NEW i \in DOMAIN log
             PROVE  /\ RecordEnd(log[i]) <= size
                    /\ \A j \in 1..(i - 1) : Extent(log[i]) \cap Extent(log[j]) = {}
  BY DEF ExtentsDisjoint
<1>1. RecTypes /\ \E q \in Nat, base \in Nat : Opened(q, base)
  BY DEF RecInv
<1>2. DOMAIN log = 1..Len(log) /\ Len(log) \in Nat
  BY <1>1, TypeFacts, SMT
<1>3. Ordered(log, Len(log)) /\ \A k \in 1..Len(log) : RecordEnd(log[k]) <= size
  BY <1>1 DEF Opened
<1>4. ASSUME NEW j \in 1..(i - 1), NEW b \in Extent(log[i]), b \in Extent(log[j]) PROVE FALSE
  <2>1. j \in 1..Len(log) /\ j < i /\ i \in 1..Len(log)
    BY <1>2, SMT
  <2>2. RecordEnd(log[j]) <= log[i].physical_start_blk
    BY <1>2, <1>3, <2>1, OrderedPair
  <2>3. /\ log[i] \in Record /\ log[j] \in Record
        /\ log[i].physical_start_blk \in Nat /\ RecordEnd(log[j]) \in Nat
    BY <1>2, <1>3, <2>1, OrderedFields
  <2>4. b \in Int /\ b < RecordEnd(log[j]) /\ log[i].physical_start_blk <= b
    BY <1>4, <2>3, ExtentFacts
  <2> QED BY <2>2, <2>3, <2>4, SMT
<1> QED BY <1>2, <1>3, <1>4

\* Through any number of crashes, unmounts and recoveries, as long as the disk is
\* what scorw_do_recovery takes for granted and the versions fit version_states.
THEOREM RecoveryInvariant ==
    Spec /\ []VersionsFit => [](DiskAsExpected => RecInv)
<1>1. Init => (DiskAsExpected => RecInv)
  BY InitOK
<1>2. (DiskAsExpected => RecInv) /\ VersionsFit /\ [Next]_vars => (DiskAsExpected => RecInv)'
  BY StepKept
<1> QED BY <1>1, <1>2, PTL DEF Spec

\* Every block that the open parent or one of its children is sent to is there:
\* recovery removes the records without data and GC punches only what nobody
\* reads (scorw_do_recovery, scorw_gc_blocks).
THEOREM ActiveReadableAlways ==
    Spec /\ []VersionsFit => []ActiveReadable
<1>1. (DiskAsExpected => RecInv) => ActiveReadable
  BY InvariantReadable
<1> QED BY <1>1, RecoveryInvariant, PTL

\* No two records share a block and the next append lands behind all of them:
\* recovery trims the parent neither too little nor too much.
THEOREM ExtentsDisjointAlways ==
    Spec /\ []VersionsFit => []ExtentsDisjoint
<1>1. (DiskAsExpected => RecInv) => ExtentsDisjoint
  BY InvariantDisjoint
<1> QED BY <1>1, RecoveryInvariant, PTL
=============================================================================
