-------------------------- MODULE VersionLogProofs --------------------------
(***************************************************************************)
(* What every log, whatever its length, guarantees about lookups: records  *)
(* of later versions do not disturb a lookup, and a lookup finds a block   *)
(* of the original file or of the extent of a record that is old enough.   *)
(***************************************************************************)
EXTENDS VersionLog, WellFoundedInduction, TLAPS

\* The fields of a record are numbers, and its length is not zero.
LEMMA RecordFields ==
    ASSUME NEW rec \in Record
    PROVE  /\ rec.version_num \in Nat
           /\ rec.logical_start_blk \in Nat
           /\ rec.physical_start_blk \in Nat
           /\ rec.len_blks \in Nat
           /\ rec.len_blks > 0
           /\ RecordEnd(rec) \in Nat
BY DEF Record, RecordEnd

\* Every entry of a log is a record, with a version that is a number.
LEMMA LogFields ==
    ASSUME NEW log \in Seq(Record)
    PROVE  \A i \in DOMAIN log : log[i] \in Record /\ log[i].version_num \in Nat
<1>1. \A i \in DOMAIN log : log[i] \in Record
  OBVIOUS
<1> QED BY <1>1, RecordFields

\* A logical block that a record covers is found inside the record's extent.
LEMMA CoveredInside ==
    ASSUME NEW rec \in Record, NEW L \in Nat, Covers(rec, L)
    PROVE  PhysicalOf(rec, L) \in Nat /\ PhysicalOf(rec, L) < RecordEnd(rec)
<1> DEFINE a == rec.logical_start_blk
           b == rec.physical_start_blk
           n == rec.len_blks
<1>1. a \in Nat /\ b \in Nat /\ n \in Nat
  BY RecordFields
<1>2. a <= L /\ L < a + n
  BY DEF Covers
<1>3. PhysicalOf(rec, L) = b + (L - a) /\ RecordEnd(rec) = b + n
  BY DEF PhysicalOf, RecordEnd
<1> HIDE DEF a, b, n
<1> QED BY <1>1, <1>2, <1>3

\* A nonempty set of naturals has a least element.
LEMMA LeastNatural ==
    ASSUME NEW S, S \subseteq Nat, S # {}
    PROVE  \E m \in S : \A y \in S : m <= y
<1>1. PICK x \in S : \A y \in S : ~ (<<y, x>> \in OpToRel(<, Nat))
  BY ZenonT(60), SMTT(60), NatLessThanWellFounded, WFMin
<1>2. ASSUME NEW y \in S PROVE x <= y
  <2>1. <<y, x>> \notin OpToRel(<, Nat)
    BY ZenonT(60), SMTT(60), <1>1
  <2>2. ~ (y < x)
    BY <2>1 DEF OpToRel
  <2> QED BY <2>2
<1> QED BY <1>2

\* Latest of a nonempty set of positions is one of them, and the largest.
LEMMA LatestPosition ==
    ASSUME NEW n \in Nat, NEW S, S \subseteq 1..n, S # {}
    PROVE  Latest(S) \in S /\ \A y \in S : Latest(S) >= y
<1> DEFINE T == {k \in Nat : n - k \in S}
<1>1. PICK z \in S : TRUE
  BY ZenonT(60), SMTT(60)
<1>2. n - z \in T
  <2>1. z \in 1..n
    BY <1>1
  <2>2. n - z \in Nat /\ n - (n - z) = z
    BY <2>1
  <2> QED BY <2>2
<1>3. PICK m \in T : \A y \in T : m <= y
  BY ZenonT(60), SMTT(60), <1>2, LeastNatural
<1>4. n - m \in S
  BY <1>3
<1>5. ASSUME NEW y \in S PROVE n - m >= y
  <2>1. y \in 1..n
    BY <1>5
  <2>2. n - y \in Nat /\ n - (n - y) = y
    BY <2>1
  <2>3. m <= n - y
    BY <1>3, <2>2
  <2> QED BY <2>1, <2>3, <1>3
<1>6. \E x \in S : \A y \in S : x >= y
  BY <1>4, <1>5
<1> HIDE DEF T
<1> QED BY <1>6, ZenonT(60), SMTT(60) DEF Latest

-----------------------------------------------------------------------------
\* later is log with more records at its end.
ExtendsLog(log, later) ==
    /\ log \in Seq(Record)
    /\ later \in Seq(Record)
    /\ Len(log) <= Len(later)
    /\ \A i \in 1..Len(log) : later[i] = log[i]

NewRecords(log, later) == (Len(log) + 1)..Len(later)

\* Appending a record.
LEMMA AppendExtends ==
    ASSUME NEW log \in Seq(Record), NEW rec \in Record
    PROVE  /\ ExtendsLog(log, Append(log, rec))
           /\ NewRecords(log, Append(log, rec)) = {Len(log) + 1}
           /\ Append(log, rec)[Len(log) + 1] = rec
<1>1. Append(log, rec) \in Seq(Record) /\ Len(log) \in Nat
  OBVIOUS
<1>2. Len(Append(log, rec)) = Len(log) + 1
  OBVIOUS
<1>3. \A i \in 1..Len(log) : Append(log, rec)[i] = log[i]
  OBVIOUS
<1>4. Append(log, rec)[Len(log) + 1] = rec
  OBVIOUS
<1>5. (Len(log) + 1)..(Len(log) + 1) = {Len(log) + 1}
  BY <1>1
<1> QED BY <1>1, <1>2, <1>3, <1>4, <1>5 DEF ExtendsLog, NewRecords

\* Appending several.
LEMMA ConcatExtends ==
    ASSUME NEW log \in Seq(Record), NEW recs \in Seq(Record)
    PROVE  /\ ExtendsLog(log, log \o recs)
           /\ Len(log \o recs) = Len(log) + Len(recs)
           /\ \A i \in NewRecords(log, log \o recs) :
                 /\ i - Len(log) \in 1..Len(recs)
                 /\ (log \o recs)[i] = recs[i - Len(log)]
<1>1. log \o recs \in Seq(Record) /\ Len(log) \in Nat /\ Len(recs) \in Nat
  OBVIOUS
<1>2. Len(log \o recs) = Len(log) + Len(recs)
  OBVIOUS
<1>3. \A i \in 1..Len(log) : (log \o recs)[i] = log[i]
  OBVIOUS
<1>4. ASSUME NEW i \in (Len(log) + 1)..(Len(log) + Len(recs))
      PROVE  i - Len(log) \in 1..Len(recs) /\ (log \o recs)[i] = recs[i - Len(log)]
  BY <1>1, <1>4
<1> QED BY <1>1, <1>2, <1>3, <1>4 DEF ExtendsLog, NewRecords

\* A version whose number none of the new records carries keeps its delta.
LEMMA DeltaKept ==
    ASSUME NEW log, NEW later, ExtendsLog(log, later), NEW w, NEW L,
           \A i \in NewRecords(log, later) : later[i].version_num # w
    PROVE  DeltaHits(later, w, L) = DeltaHits(log, w, L)
<1>1. DOMAIN log = 1..Len(log) /\ DOMAIN later = 1..Len(later)
      /\ Len(log) \in Nat /\ Len(later) \in Nat
  BY DEF ExtendsLog
<1>2. ASSUME NEW i \in DOMAIN log PROVE i \in DOMAIN later /\ later[i] = log[i]
  BY <1>1, <1>2 DEF ExtendsLog
<1>3. ASSUME NEW i \in DOMAIN later, later[i].version_num = w PROVE i \in DOMAIN log
  BY <1>1, <1>3 DEF NewRecords
<1> QED BY <1>2, <1>3 DEF DeltaHits

\* A lookup at a version that is older than every new record finds what it
\* found before (scorw_lookup_physical_block goes from ver downwards).
LEMMA LookupKept ==
    ASSUME NEW log, NEW later, ExtendsLog(log, later), NEW ver \in Nat, NEW L,
           \A i \in NewRecords(log, later) : later[i].version_num > ver
    PROVE  Lookup(later, ver, L) = Lookup(log, ver, L)
<1>1. ASSUME NEW w \in 1..ver
      PROVE  DeltaHits(later, w, L) = DeltaHits(log, w, L)
  <2>1. ASSUME NEW i \in NewRecords(log, later) PROVE later[i].version_num # w
    <3>1. later[i].version_num > ver
      BY <2>1
    <3>2. i \in 1..Len(later) /\ later \in Seq(Record)
      BY <2>1 DEF NewRecords, ExtendsLog
    <3>3. later[i] \in Record
      BY <3>2
    <3>4. later[i].version_num \in Nat
      BY <3>3, RecordFields
    <3> QED BY <3>1, <3>4
  <2> QED BY <2>1, DeltaKept
<1>2. HitVersions(later, ver, L) = HitVersions(log, ver, L)
  BY <1>1 DEF HitVersions, InDelta
<1>3. CASE HitVersions(log, ver, L) = {}
  BY <1>2, <1>3 DEF Lookup
<1>4. CASE HitVersions(log, ver, L) # {}
  <2> DEFINE w == Latest(HitVersions(log, ver, L))
  <2>1. w \in HitVersions(log, ver, L)
    <3>1. HitVersions(log, ver, L) \subseteq 1..ver
      BY DEF HitVersions
    <3> QED BY <1>4, <3>1, LatestPosition
  <2>2. w \in 1..ver /\ DeltaHits(log, w, L) # {}
    BY <2>1 DEF HitVersions, InDelta
  <2>3. DeltaHits(later, w, L) = DeltaHits(log, w, L)
    BY <1>1, <2>2
  <2>4. Latest(DeltaHits(log, w, L)) \in DeltaHits(log, w, L)
    <3>1. DeltaHits(log, w, L) \subseteq 1..Len(log) /\ Len(log) \in Nat
      BY DEF DeltaHits, ExtendsLog
    <3> QED BY <2>2, <3>1, LatestPosition
  <2>5. later[Latest(DeltaHits(log, w, L))] = log[Latest(DeltaHits(log, w, L))]
    BY <2>4 DEF DeltaHits, ExtendsLog
  <2>6. DeltaAt(later, w, L) = DeltaAt(log, w, L)
    BY <2>3, <2>5 DEF DeltaAt
  <2> QED BY <1>2, <1>4, <2>6 DEF Lookup
<1> QED BY <1>3, <1>4

\* What a lookup finds is a block of the original file, or a block of the
\* extent of a record whose version is at most ver.
LEMMA LookupFinds ==
    ASSUME NEW log \in Seq(Record), NEW ver \in Nat, NEW L \in Nat,
           Lookup(log, ver, L) # BLK_NOT_FOUND
    PROVE  /\ Lookup(log, ver, L) \in Nat
           /\ \/ Lookup(log, ver, L) < OrigBlocks
              \/ \E i \in DOMAIN log : /\ log[i].version_num <= ver
                                       /\ Lookup(log, ver, L) < RecordEnd(log[i])
<1> DEFINE w == Latest(HitVersions(log, ver, L))
           k == Latest(DeltaHits(log, w, L))
<1>1. CASE HitVersions(log, ver, L) = {}
  BY <1>1, LogAssumption DEF Lookup, BLK_NOT_FOUND
<1>2. CASE HitVersions(log, ver, L) # {}
  <2>1. w \in HitVersions(log, ver, L)
    <3>1. HitVersions(log, ver, L) \subseteq 1..ver
      BY DEF HitVersions
    <3> QED BY <1>2, <3>1, LatestPosition
  <2>2. w \in 1..ver /\ DeltaHits(log, w, L) # {}
    BY <2>1, ZenonT(60), SMTT(60) DEF HitVersions, InDelta
  <2>3. k \in DeltaHits(log, w, L)
    <3>1. DeltaHits(log, w, L) \subseteq 1..Len(log) /\ Len(log) \in Nat
      BY DEF DeltaHits
    <3> QED BY <2>2, <3>1, LatestPosition
  <2>4. Lookup(log, ver, L) = PhysicalOf(log[k], L)
    BY <1>2 DEF Lookup, DeltaAt
  <2> HIDE DEF w, k
  <2>5. k \in DOMAIN log /\ log[k].version_num = w /\ Covers(log[k], L)
    BY <2>3 DEF DeltaHits
  <2>6. log[k] \in Record
    BY <2>5
  <2>7. PhysicalOf(log[k], L) \in Nat /\ PhysicalOf(log[k], L) < RecordEnd(log[k])
    BY <2>5, <2>6, CoveredInside
  <2> QED BY <2>2, <2>4, <2>5, <2>7
<1> QED BY <1>1, <1>2

\* A lookup that finds nothing is one past the whole blocks of the original.
LEMMA LookupMisses ==
    ASSUME NEW log \in Seq(Record), NEW ver \in Nat, NEW L \in Nat,
           Lookup(log, ver, L) = BLK_NOT_FOUND
    PROVE  OrigBlocks <= L
<1> DEFINE w == Latest(HitVersions(log, ver, L))
           k == Latest(DeltaHits(log, w, L))
<1>1. CASE HitVersions(log, ver, L) = {}
  BY <1>1, LogAssumption DEF Lookup, BLK_NOT_FOUND
<1>2. CASE HitVersions(log, ver, L) # {}
  <2>1. w \in HitVersions(log, ver, L)
    <3>1. HitVersions(log, ver, L) \subseteq 1..ver
      BY DEF HitVersions
    <3> QED BY <1>2, <3>1, LatestPosition
  <2>2. DeltaHits(log, w, L) # {}
    BY <2>1, ZenonT(60), SMTT(60) DEF HitVersions, InDelta
  <2>3. k \in DeltaHits(log, w, L)
    <3>1. DeltaHits(log, w, L) \subseteq 1..Len(log) /\ Len(log) \in Nat
      BY DEF DeltaHits
    <3> QED BY <2>2, <3>1, LatestPosition
  <2>4. Lookup(log, ver, L) = PhysicalOf(log[k], L)
    BY <1>2 DEF Lookup, DeltaAt
  <2> HIDE DEF w, k
  <2>5. k \in DOMAIN log /\ Covers(log[k], L)
    BY <2>3 DEF DeltaHits
  <2>6. log[k] \in Record
    BY <2>5
  <2>7. PhysicalOf(log[k], L) \in Nat
    BY <2>5, <2>6, CoveredInside
  <2> QED BY <2>4, <2>7 DEF BLK_NOT_FOUND
<1> QED BY <1>1, <1>2
=============================================================================
