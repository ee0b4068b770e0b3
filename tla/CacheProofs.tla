---------------------------- MODULE CacheProofs -----------------------------
(***************************************************************************)
(* The cached version maps answer as the log does, for any number of       *)
(* versions, readers, blocks and maps in memory, when calls do not overlap *)
(* (CacheSerialSpec).  The invariant follows a call through the cache:     *)
(* what its map holds after each replayed record, and which versions its   *)
(* loop has ruled out.                                                     *)
(***************************************************************************)
EXTENDS VersionCache, VersionLogProofs, FiniteSetTheorems

-----------------------------------------------------------------------------
(* The inductive invariant.                                                *)

PCs == {"idle", "done", "get", "replace", "alloc", "replay", "use", "null", "log"}

ThreadState ==
    [pc : PCs, v : Nat, ver : Nat, blk : Nat, map : Maps \cup {NULL}, i : Nat,
     result : Int, want : Int, failed : BOOLEAN]

\* What the first k records of lg say of version v.
HitsTo(lg, k, v, L) == {j \in 1..k : lg[j].version_num = v /\ Covers(lg[j], L)}

DeltaTo(lg, k, v) ==
    [L \in {b \in LogicalBlocks : HitsTo(lg, k, v, b) # {}} |->
        PhysicalOf(lg[Latest(HitsTo(lg, k, v, L))], L)]

Inside(t) == th[t].pc \notin {"idle", "done"}

\* The variables have their types; the caller in the cache is alone.
CacheTypes ==
    /\ log \in Seq(Record)
    /\ version \in Nat \ {0}
    /\ states \in [1..MAX_VERSIONS -> Maps \cup {NULL}]
    /\ DOMAIN maps = Maps
    /\ loaded \in Seq(1..MAX_VERSIONS)
    /\ Len(loaded) <= MAX_RAM_VERSIONS
    /\ fifo_head \in 0..(MAX_RAM_VERSIONS - 1)
    /\ th \in [CacheThreads -> ThreadState]

Alone == \A t, u \in CacheThreads : Inside(t) /\ Inside(u) => t = u

\* version_states and the maps in memory correspond, and each version with a
\* map has a slot of loaded_versions.
Pointers ==
    /\ \A v \in 1..MAX_VERSIONS : states[v] # NULL =>
         /\ maps[states[v]] # NULL
         /\ \A w \in 1..MAX_VERSIONS : states[w] = states[v] => w = v
         /\ \E k \in 1..Len(loaded) : loaded[k] = v
    /\ \A a \in Maps : maps[a] # NULL => \E v \in 1..MAX_VERSIONS : states[v] = a

\* What a caller knows at each step.
InCall(t) ==
    LET c == th[t] IN
    /\ c.v >= 1 /\ c.ver >= 1 /\ c.v <= c.ver
    /\ c.blk \in LogicalBlocks
    /\ c.pc \in {"get", "replace", "alloc", "null"} => c.map = NULL
    /\ c.pc \in {"replace", "alloc", "replay", "use", "log"} => c.v <= MAX_VERSIONS
    /\ c.pc \in {"replace", "alloc"} => states[c.v] = NULL
    /\ c.pc \in {"replay", "use", "log"} => c.map # NULL /\ states[c.v] = c.map
    /\ c.pc = "replace" => /\ Len(loaded) = MAX_RAM_VERSIONS
                           /\ c.i = fifo_head
                           /\ states[loaded[fifo_head + 1]] = NULL
    /\ c.pc = "alloc" => \E k \in 1..Len(loaded) : loaded[k] = c.v
    /\ c.pc = "replay" => /\ c.i \in 1..(Len(log) + 1)
                          /\ maps[c.map] = DeltaTo(log, c.i - 1, c.v)

\* A reader has found nothing above the version it is at, unless an allocation
\* failed; its answer is the one of the log it started with.
Reading(t) ==
    LET c == th[t] IN
    /\ c.pc # "log"
    /\ c.want = Lookup(log, c.ver, c.blk)
    /\ \A u \in (c.v + 1)..c.ver : c.failed \/ u > MAX_VERSIONS \/ ~ InDelta(log, u, c.blk)
    /\ c.pc = "null" => c.failed \/ c.v > MAX_VERSIONS

Recording ==
    LET c == th[Writer] IN
    /\ c.v = c.ver
    /\ c.pc = "log" => maps[c.map] = DeltaTo(Append(log, NewRecord), Len(log) + 1, c.v)

Calls ==
    /\ \A t \in CacheThreads : Inside(t) => InCall(t)
    /\ \A t \in Readers : Inside(t) => Reading(t)
    /\ Inside(Writer) => Recording
    /\ \A t \in CacheThreads : ~ Inside(t) => th[t].map = NULL

Answered ==
    \A t \in Readers : th[t].pc = "done" /\ th[t].ver > 0 /\ ~ th[t].failed =>
        th[t].result = th[t].want

Coherent ==
    \A v \in 1..MAX_VERSIONS :
        states[v] # NULL /\ ~ Filling(v) => maps[states[v]] = DeltaTo(log, Len(log), v)

CacheInv == ~ Overlap /\ CacheTypes /\ Alone /\ Pointers /\ Calls /\ Answered /\ Coherent
-----------------------------------------------------------------------------
(* What the records of a log say of one version.                           *)

\* Zenon is tried on every leaf; leaves with arithmetic name SMT.
USE ZenonT(30)

\* The position that HitsTo ends at.
LEMMA LastHit ==
    ASSUME NEW lg \in Seq(Record), NEW k \in 0..Len(lg), NEW v, NEW L,
           HitsTo(lg, k, v, L) # {}
    PROVE  /\ Latest(HitsTo(lg, k, v, L)) \in HitsTo(lg, k, v, L)
           /\ \A j \in HitsTo(lg, k, v, L) : j <= Latest(HitsTo(lg, k, v, L))
<1>1. HitsTo(lg, k, v, L) \subseteq 1..k /\ k \in Nat
  BY SMT DEF HitsTo
<1> QED BY <1>1, LatestPosition

\* Nothing is known before the first record.
LEMMA DeltaNone ==
    ASSUME NEW lg, NEW v
    PROVE  DeltaTo(lg, 0, v) = << >>
<1>1. \A b \in LogicalBlocks : HitsTo(lg, 0, v, b) = {}
  BY SMT DEF HitsTo
<1>2. {b \in LogicalBlocks : HitsTo(lg, 0, v, b) # {}} = {}
  BY <1>1
<1> QED BY <1>2, SMT DEF DeltaTo

\* Latest of a set of positions is determined by its two properties.
LEMMA LatestIs ==
    ASSUME NEW n \in Nat, NEW S, S \subseteq 1..n, NEW m \in S, \A y \in S : y <= m
    PROVE  Latest(S) = m
<1>1. Latest(S) \in S /\ Latest(S) >= m
  BY LatestPosition
<1> DEFINE x == Latest(S)
<1> HIDE DEF x
<1>2. x \in S /\ x >= m
  BY <1>1 DEF x
<1>3. x \in 1..n /\ m \in 1..n /\ x <= m
  BY <1>2
<1>4. x = m
  BY <1>2, <1>3, SMT
<1> QED BY <1>4 DEF x

\* One more record: its own blocks are put over the others if it is of the
\* version, and otherwise nothing changes.
LEMMA DeltaStep ==
    ASSUME NEW lg \in Seq(Record), NEW k \in Nat, k < Len(lg), NEW v
    PROVE  DeltaTo(lg, k + 1, v) =
             IF lg[k + 1].version_num = v
             THEN Overlay(Extent(lg[k + 1]), DeltaTo(lg, k, v))
             ELSE DeltaTo(lg, k, v)
<1> DEFINE n == k + 1
           rec == lg[n]
           Hit(L) == rec.version_num = v /\ Covers(rec, L)
           H(L) == HitsTo(lg, k, v, L)
           G(L) == HitsTo(lg, n, v, L)
<1>0. Len(lg) \in Nat /\ n \in 1..Len(lg) /\ k \in 0..Len(lg) /\ 1..n = 1..k \cup {n} /\ n \notin 1..k
  BY SMT
<1>1. ASSUME NEW L PROVE G(L) = IF Hit(L) THEN H(L) \cup {n} ELSE H(L)
  BY <1>0 DEF HitsTo
<1>2. ASSUME NEW L, Hit(L) PROVE Latest(G(L)) = n
  <2>1. G(L) \subseteq 1..n /\ n \in G(L)
    BY <1>0, <1>1, <1>2 DEF HitsTo
  <2>2. \A y \in G(L) : y <= n
    BY <1>0, <2>1, SMT
  <2> HIDE DEF G
  <2> QED BY <1>0, <2>1, <2>2, LatestIs, SMT
<1> DEFINE D == {b \in LogicalBlocks : H(b) # {}}
           E == {b \in LogicalBlocks : G(b) # {}}
           M(b) == PhysicalOf(lg[Latest(H(b))], b)
           N(b) == PhysicalOf(lg[Latest(G(b))], b)
<1>3. DeltaTo(lg, k, v) = [b \in D |-> M(b)] /\ DeltaTo(lg, k + 1, v) = [b \in E |-> N(b)]
  BY DEF DeltaTo
<1>4. ASSUME rec.version_num # v PROVE DeltaTo(lg, k + 1, v) = DeltaTo(lg, k, v)
  <2>1. \A b : G(b) = H(b)
    BY <1>1, <1>4
  <2>2. E = D /\ \A b : N(b) = M(b)
    BY <2>1
  <2> HIDE DEF M, N, D, E
  <2> QED BY <1>3, <2>2
<1>5. ASSUME rec.version_num = v
      PROVE  DeltaTo(lg, k + 1, v) = Overlay(Extent(rec), DeltaTo(lg, k, v))
  <2> DEFINE C == {b \in LogicalBlocks : Covers(rec, b)}
             P(b) == PhysicalOf(rec, b)
  <2>1. Extent(rec) = [b \in C |-> P(b)]
    BY DEF Extent
  <2>2. E = C \cup D
    BY <1>1, <1>5
  <2>3. ASSUME NEW b \in C PROVE N(b) = P(b)
    BY <1>2, <1>5
  <2>4. ASSUME NEW b \in D, b \notin C PROVE N(b) = M(b)
    <3>1. ~ Hit(b)
      BY <2>4
    <3>2. G(b) = H(b)
      BY <1>1, <3>1
    <3> QED BY <3>2
  <2> DEFINE e == [b \in C |-> P(b)]
             m == [b \in D |-> M(b)]
  <2>5. Overlay(e, m) = [b \in C \cup D |-> IF b \in C THEN P(b) ELSE M(b)]
    <3> HIDE DEF P, M, C, D
    <3> QED BY DEF Overlay
  <2>6. [b \in E |-> N(b)] = [b \in C \cup D |-> IF b \in C THEN P(b) ELSE M(b)]
    <3> HIDE DEF M, N, D, E, C, P
    <3> QED BY <2>2, <2>3, <2>4
  <2> QED BY <1>3, <2>1, <2>5, <2>6
<1> QED BY <1>4, <1>5

\* A record at the end of the log does not change what the others say.
LEMMA DeltaPrefix ==
    ASSUME NEW lg \in Seq(Record), NEW rec \in Record, NEW k \in 0..Len(lg), NEW v
    PROVE  DeltaTo(Append(lg, rec), k, v) = DeltaTo(lg, k, v)
<1>1. \A j \in 1..k : Append(lg, rec)[j] = lg[j]
  BY SMT
<1>2. ASSUME NEW L PROVE HitsTo(Append(lg, rec), k, v, L) = HitsTo(lg, k, v, L)
  BY <1>1 DEF HitsTo
<1>3. ASSUME NEW L, HitsTo(lg, k, v, L) # {}
      PROVE  Append(lg, rec)[Latest(HitsTo(lg, k, v, L))] = lg[Latest(HitsTo(lg, k, v, L))]
  <2>1. Latest(HitsTo(lg, k, v, L)) \in 1..k
    BY <1>3, LastHit DEF HitsTo
  <2> QED BY <1>1, <2>1
<1> DEFINE S == {b \in LogicalBlocks : HitsTo(lg, k, v, b) # {}}
           T == {b \in LogicalBlocks : HitsTo(Append(lg, rec), k, v, b) # {}}
           M(b) == PhysicalOf(lg[Latest(HitsTo(lg, k, v, b))], b)
           N(b) == PhysicalOf(Append(lg, rec)[Latest(HitsTo(Append(lg, rec), k, v, b))], b)
<1>4. S = T
  BY <1>2
<1>5. ASSUME NEW b \in S PROVE N(b) = M(b)
  <2>1. HitsTo(lg, k, v, b) # {}
    OBVIOUS
  <2> QED BY <1>2, <1>3, <2>1
<1>6. DeltaTo(lg, k, v) = [b \in S |-> M(b)] /\ DeltaTo(Append(lg, rec), k, v) = [b \in T |-> N(b)]
  BY DEF DeltaTo
<1> HIDE DEF S, T, M, N
<1> QED BY <1>4, <1>5, <1>6

\* The whole log.
LEMMA DeltaWhole ==
    ASSUME NEW lg \in Seq(Record), NEW v
    PROVE  /\ \A L : DeltaHits(lg, v, L) = HitsTo(lg, Len(lg), v, L)
           /\ DeltaTo(lg, Len(lg), v) =
                [L \in {b \in LogicalBlocks : InDelta(lg, v, b)} |-> DeltaAt(lg, v, L)]
<1>1. ASSUME NEW L PROVE DeltaHits(lg, v, L) = HitsTo(lg, Len(lg), v, L)
  BY SMT DEF DeltaHits, HitsTo
<1> QED BY <1>1, SMT DEF DeltaTo, InDelta, DeltaAt
-----------------------------------------------------------------------------
(* Steps of a caller.                                                      *)

\* A thread's state stays one when its fields change as they do in the calls.
LEMMA ThreadUpdates ==
    ASSUME NEW c \in ThreadState
    PROVE  /\ \A p \in PCs : [c EXCEPT !.pc = p] \in ThreadState
           /\ \A i \in Nat : [c EXCEPT !.i = i] \in ThreadState
           /\ \A p \in PCs, a \in Maps \cup {NULL} : [c EXCEPT !.pc = p, !.map = a] \in ThreadState
           /\ \A p \in PCs, i \in Nat : [c EXCEPT !.pc = p, !.i = i] \in ThreadState
           /\ \A p \in PCs, f \in BOOLEAN : [c EXCEPT !.pc = p, !.failed = f] \in ThreadState
           /\ \A p \in PCs, a \in Maps \cup {NULL}, i \in Nat :
                [c EXCEPT !.pc = p, !.map = a, !.i = i] \in ThreadState
           /\ \A p \in PCs, a \in Maps \cup {NULL}, r \in Int :
                [c EXCEPT !.pc = p, !.result = r, !.map = a] \in ThreadState
           /\ \A p \in PCs, a \in Maps \cup {NULL}, v \in Nat :
                [c EXCEPT !.pc = p, !.v = v, !.map = a] \in ThreadState
  BY ZenonT(60) DEF ThreadState

\* The fields of a thread's state.
LEMMA ThreadFields ==
    ASSUME NEW c \in ThreadState
    PROVE  /\ c.pc \in PCs /\ c.v \in Nat /\ c.ver \in Nat /\ c.blk \in Nat
           /\ c.map \in Maps \cup {NULL} /\ c.i \in Nat
           /\ c.result \in Int /\ c.want \in Int /\ c.failed \in BOOLEAN
  BY DEF ThreadState

\* Nobody else is in the cache while t is.
LEMMA OthersOut ==
    ASSUME CacheInv, NEW t \in CacheThreads, Inside(t)
    PROVE  \A u \in CacheThreads \ {t} : ~ Inside(u)
  BY DEF CacheInv, Alone

\* What remains to be shown of the callers when only t has moved.
LEMMA OneMoves ==
    ASSUME CacheInv, NEW t \in CacheThreads, NEW c \in ThreadState, Set(t, c),
           \A u \in CacheThreads \ {t} : ~ Inside(u)
    PROVE  /\ th' \in [CacheThreads -> ThreadState]
           /\ th'[t] = c
           /\ \A u \in CacheThreads \ {t} : th'[u] = th[u] /\ ~ Inside(u)'
           /\ Alone'
           /\ Calls' <=> /\ Inside(t)' => InCall(t)'
                         /\ Inside(t)' /\ t \in Readers => Reading(t)'
                         /\ Inside(t)' /\ t = Writer => Recording'
                         /\ ~ Inside(t)' => th'[t].map = NULL
           /\ Answered' <=>
                (t \in Readers /\ th'[t].pc = "done" /\ th'[t].ver > 0 /\ ~ th'[t].failed =>
                    th'[t].result = th'[t].want)
<1>1. th \in [CacheThreads -> ThreadState]
  BY DEF CacheInv, CacheTypes
<1>2. /\ th' \in [CacheThreads -> ThreadState]
      /\ th'[t] = c
      /\ \A u \in CacheThreads \ {t} : th'[u] = th[u]
  BY <1>1 DEF Set
<1>3. \A u \in CacheThreads \ {t} : ~ Inside(u)'
  BY <1>2 DEF Inside
<1>4. Alone'
  BY <1>3 DEF Alone
<1>5. \A u \in CacheThreads \ {t} : th'[u].map = NULL
  BY <1>2 DEF CacheInv, Calls
<1>6. Readers \subseteq CacheThreads /\ Writer \in CacheThreads
  BY DEF CacheThreads
<1>7. Calls' <=> /\ Inside(t)' => InCall(t)'
                 /\ Inside(t)' /\ t \in Readers => Reading(t)'
                 /\ Inside(t)' /\ t = Writer => Recording'
                 /\ ~ Inside(t)' => th'[t].map = NULL
  BY <1>3, <1>5, <1>6 DEF Calls
<1>8. \A u \in Readers \ {t} : th'[u].pc = "done" /\ th'[u].ver > 0 /\ ~ th'[u].failed =>
                                  th'[u].result = th'[u].want
  BY <1>2, <1>6 DEF CacheInv, Answered
<1>9. Answered' <=>
        (t \in Readers /\ th'[t].pc = "done" /\ th'[t].ver > 0 /\ ~ th'[t].failed =>
            th'[t].result = th'[t].want)
  BY <1>8 DEF Answered
<1> QED BY <1>2, <1>3, <1>4, <1>7, <1>9

\* Steps that leave the maps alone keep them coherent, as long as the one that
\* fills a map does not stop.
LEMMA CoherentStays ==
    ASSUME CacheInv, NEW t \in CacheThreads, NEW c \in ThreadState, Set(t, c),
           UNCHANGED <<log, states, maps>>,
           th[t].pc \in {"replay", "log"} => c.pc = th[t].pc /\ c.v = th[t].v
    PROVE  Coherent'
<1>1. th \in [CacheThreads -> ThreadState]
  BY DEF CacheInv, CacheTypes
<1>2. th'[t] = c /\ \A u \in CacheThreads \ {t} : th'[u] = th[u]
  BY <1>1 DEF Set
<1>3. ASSUME NEW v, Filling(v) PROVE Filling(v)'
  BY <1>2, <1>3 DEF Filling
<1> QED BY <1>3 DEF CacheInv, Coherent

\* scorw_get_or_create_version with a version that is out of range or has a map.
LEMMA GetKept ==
    ASSUME CacheInv, NEW t \in CacheThreads, GetOutOfRange(t) \/ GetHit(t)
    PROVE  CacheInv'
<1> DEFINE c == IF th[t].v > MAX_VERSIONS THEN [th[t] EXCEPT !.pc = "null"]
                ELSE [th[t] EXCEPT !.pc = "use", !.map = states[th[t].v]]
<1>1. /\ th[t] \in ThreadState /\ th[t].pc = "get" /\ th[t].v \in Nat /\ Inside(t)
      /\ UNCHANGED <<log, version, cacheVars>> /\ MAX_VERSIONS \in Nat
  BY LogAssumption, ThreadFields DEF CacheInv, CacheTypes, GetOutOfRange, GetHit, Inside
<1>2. InCall(t) /\ (t \in Readers => Reading(t)) /\ (t = Writer => Recording)
  BY <1>1 DEF CacheInv, Calls
<1>3. th[t].v <= MAX_VERSIONS => /\ th[t].v \in 1..MAX_VERSIONS
                                /\ states[th[t].v] \in Maps \cup {NULL}
                                /\ states[th[t].v] # NULL
  BY <1>1, <1>2, SMT DEF CacheInv, CacheTypes, InCall, GetOutOfRange, GetHit
<1>4. Set(t, c)
  BY <1>1, SMT DEF GetOutOfRange, GetHit
<1>5. c \in ThreadState
  <2>1. "null" \in PCs /\ "use" \in PCs
    BY DEF PCs
  <2>2. CASE th[t].v > MAX_VERSIONS
    <3>1. [th[t] EXCEPT !.pc = "null"] \in ThreadState
      BY <1>1, <2>1, ThreadUpdates
    <3> QED BY <2>2, <3>1
  <2>3. CASE ~ (th[t].v > MAX_VERSIONS)
    <3>1. states[th[t].v] \in Maps \cup {NULL}
      BY <1>1, <1>3, <2>3, SMT
    <3>2. [th[t] EXCEPT !.pc = "use", !.map = states[th[t].v]] \in ThreadState
      BY <1>1, <2>1, <3>1, ThreadUpdates
    <3> QED BY <2>3, <3>2
  <2> QED BY <2>2, <2>3
<1>6. /\ c.v = th[t].v /\ c.ver = th[t].ver /\ c.blk = th[t].blk /\ c.failed = th[t].failed
      /\ c.want = th[t].want
      /\ c.pc = IF th[t].v > MAX_VERSIONS THEN "null" ELSE "use"
      /\ c.map = IF th[t].v > MAX_VERSIONS THEN th[t].map ELSE states[th[t].v]
  BY <1>1 DEF ThreadState
<1> HIDE DEF c
<1>7. \A u \in CacheThreads \ {t} : ~ Inside(u)
  BY <1>1, OthersOut
<1>8. th'[t] = c /\ th' \in [CacheThreads -> ThreadState] /\ Alone'
  BY <1>4, <1>5, <1>7, OneMoves
<1>9. Inside(t)' /\ InCall(t)'
  BY <1>1, <1>2, <1>3, <1>6, <1>8, SMT DEF Inside, InCall, cacheVars
<1>10. t \in Readers => Reading(t)'
  BY <1>1, <1>2, <1>6, <1>8 DEF Reading
<1>11. t = Writer => Recording'
  BY <1>1, <1>2, <1>6, <1>8 DEF Recording
<1>12. Calls' /\ Answered'
  BY <1>4, <1>5, <1>6, <1>7, <1>8, <1>9, <1>10, <1>11, OneMoves
<1>13. Coherent'
  BY <1>1, <1>4, <1>5, CoherentStays DEF cacheVars
<1>14. CacheTypes' /\ Pointers'
  BY <1>1, <1>8 DEF CacheInv, CacheTypes, Pointers, cacheVars
<1> QED BY <1>8, <1>12, <1>13, <1>14 DEF CacheInv

\* Taking a slot of loaded_versions while there is room.
LEMMA RoomKept ==
    ASSUME CacheInv, NEW t \in CacheThreads, GetRoom(t)
    PROVE  CacheInv'
<1> DEFINE c == [th[t] EXCEPT !.pc = "alloc"]
<1>1. /\ th[t] \in ThreadState /\ th[t].pc = "get" /\ th[t].v \in Nat /\ Inside(t)
      /\ UNCHANGED <<log, version, states, maps, fifo_head>>
      /\ th[t].v <= MAX_VERSIONS /\ states[th[t].v] = NULL
      /\ Len(loaded) < MAX_RAM_VERSIONS /\ loaded' = Append(loaded, th[t].v)
  BY ThreadFields DEF CacheInv, CacheTypes, GetRoom, Missing, Inside
<1>2. InCall(t) /\ (t \in Readers => Reading(t)) /\ (t = Writer => Recording)
  BY <1>1 DEF CacheInv, Calls
<1>3. Set(t, c)
  BY DEF GetRoom
<1>4. c \in ThreadState
  <2>1. "alloc" \in PCs
    BY DEF PCs
  <2> QED BY <1>1, <2>1, ThreadUpdates
<1>5. /\ c.v = th[t].v /\ c.ver = th[t].ver /\ c.blk = th[t].blk /\ c.failed = th[t].failed
      /\ c.want = th[t].want /\ c.pc = "alloc" /\ c.map = th[t].map
  BY <1>1 DEF ThreadState
<1> HIDE DEF c
<1>6. \A u \in CacheThreads \ {t} : ~ Inside(u)
  BY <1>1, OthersOut
<1>7. th'[t] = c /\ th' \in [CacheThreads -> ThreadState] /\ Alone'
  BY <1>3, <1>4, <1>6, OneMoves
<1>8. /\ loaded' \in Seq(1..MAX_VERSIONS) /\ Len(loaded') = Len(loaded) + 1
      /\ Len(loaded) \in Nat
      /\ \A k \in 1..Len(loaded) : loaded'[k] = loaded[k]
      /\ loaded'[Len(loaded) + 1] = th[t].v
  <2>1. loaded \in Seq(1..MAX_VERSIONS) /\ th[t].v \in 1..MAX_VERSIONS
    BY <1>1, <1>2, LogAssumption, SMT DEF CacheInv, CacheTypes, InCall
  <2> QED BY <1>1, <2>1, SMT
<1>9. Inside(t)' /\ InCall(t)'
  <2>1. Len(loaded') \in 1..Len(loaded')
    BY <1>8, SMT
  <2>2. \E k \in 1..Len(loaded') : loaded'[k] = c.v
    BY <1>5, <1>8, <2>1
  <2> QED BY <1>1, <1>2, <1>5, <1>7, <2>2 DEF Inside, InCall
<1>10. t \in Readers => Reading(t)'
  BY <1>1, <1>2, <1>5, <1>7 DEF Reading
<1>11. t = Writer => Recording'
  BY <1>1, <1>2, <1>5, <1>7 DEF Recording
<1>12. Calls' /\ Answered'
  BY <1>3, <1>4, <1>5, <1>6, <1>7, <1>9, <1>10, <1>11, OneMoves
<1>13. Coherent'
  BY <1>1, <1>3, <1>4, CoherentStays
<1>14. CacheTypes'
  BY <1>1, <1>7, <1>8, CacheAssumption, SMT DEF CacheInv, CacheTypes
<1>15. Pointers'
  <2>1. \A v : (\E k \in 1..Len(loaded) : loaded[k] = v) => \E k \in 1..Len(loaded') : loaded'[k] = v
    BY <1>8, SMT
  <2> QED BY <1>1, <2>1 DEF CacheInv, Pointers
<1> QED BY <1>7, <1>12, <1>13, <1>14, <1>15 DEF CacheInv
\* What every step inside a call starts from.
LEMMA AtStep ==
    ASSUME CacheInv, NEW t \in CacheThreads, Inside(t)
    PROVE  /\ th[t] \in ThreadState /\ InCall(t)
           /\ t \in Readers => Reading(t)
           /\ t = Writer => Recording
           /\ \A u \in CacheThreads \ {t} : ~ Inside(u)
           /\ th[t].v <= MAX_VERSIONS => th[t].v \in 1..MAX_VERSIONS
<1>1. th[t] \in ThreadState /\ InCall(t)
  BY DEF CacheInv, CacheTypes, Calls
<1>2. th[t].v \in Nat /\ th[t].v >= 1 /\ MAX_VERSIONS \in Nat
  BY <1>1, ThreadFields, LogAssumption DEF InCall
<1> QED BY <1>1, <1>2, OthersOut, SMT DEF CacheInv, Calls

\* An element of a sequence.
LEMMA ElementIn ==
    ASSUME NEW S, NEW s \in Seq(S), NEW k \in 1..Len(s)
    PROVE  s[k] \in S
  BY SMT

\* Freeing the map of the slot at the head.
LEMMA FreeKept ==
    ASSUME CacheInv, NEW t \in CacheThreads, EvictFree(t)
    PROVE  CacheInv'
<1> DEFINE c == [th[t] EXCEPT !.pc = "replace", !.i = fifo_head]
           old == loaded[fifo_head + 1]
<1>1. /\ th[t].pc = "get" /\ th[t].v <= MAX_VERSIONS /\ states[th[t].v] = NULL
      /\ UNCHANGED <<log, version, loaded, fifo_head>>
      /\ Len(loaded) = MAX_RAM_VERSIONS
      /\ maps' = IF states[old] = NULL THEN maps ELSE [maps EXCEPT ![states[old]] = NULL]
      /\ states' = [states EXCEPT ![old] = NULL]
      /\ Set(t, c)
  BY DEF EvictFree, Missing
<1>2. Inside(t)
  BY <1>1 DEF Inside
<1>3. /\ th[t] \in ThreadState /\ InCall(t) /\ th[t].v \in 1..MAX_VERSIONS
      /\ t \in Readers => Reading(t)
      /\ t = Writer => Recording
      /\ \A u \in CacheThreads \ {t} : ~ Inside(u)
  BY <1>1, <1>2, AtStep
<1>4. /\ fifo_head \in Nat /\ fifo_head + 1 \in 1..Len(loaded)
      /\ loaded \in Seq(1..MAX_VERSIONS) /\ old \in 1..MAX_VERSIONS
      /\ states \in [1..MAX_VERSIONS -> Maps \cup {NULL}] /\ DOMAIN maps = Maps
  <2>0. /\ fifo_head \in 0..(MAX_RAM_VERSIONS - 1) /\ MAX_RAM_VERSIONS \in Nat
        /\ loaded \in Seq(1..MAX_VERSIONS) /\ Len(loaded) = MAX_RAM_VERSIONS
    BY <1>1, CacheAssumption DEF CacheInv, CacheTypes
  <2>1. fifo_head \in Nat /\ fifo_head + 1 \in 1..Len(loaded)
    BY <2>0, SMT
  <2>2. loaded[fifo_head + 1] \in 1..MAX_VERSIONS
    BY <2>0, <2>1, ElementIn
  <2> QED BY <2>0, <2>1, <2>2 DEF CacheInv, CacheTypes
<1>5. c \in ThreadState
  <2>1. "replace" \in PCs
    BY DEF PCs
  <2> QED BY <1>3, <1>4, <2>1, ThreadUpdates
<1>6. /\ c.v = th[t].v /\ c.ver = th[t].ver /\ c.blk = th[t].blk /\ c.failed = th[t].failed
      /\ c.want = th[t].want /\ c.pc = "replace" /\ c.map = th[t].map /\ c.i = fifo_head
  BY <1>3 DEF ThreadState
<1> HIDE DEF c, old
<1>7. th'[t] = c /\ th' \in [CacheThreads -> ThreadState] /\ Alone'
  BY <1>1, <1>3, <1>5, OneMoves
<1>8. /\ states' \in [1..MAX_VERSIONS -> Maps \cup {NULL}]
      /\ states'[old] = NULL
      /\ \A v \in 1..MAX_VERSIONS : v # old => states'[v] = states[v]
  BY <1>1, <1>4
<1>9. /\ DOMAIN maps' = Maps
      /\ \A a \in Maps : a # states[old] => maps'[a] = maps[a]
      /\ states[old] # NULL => maps'[states[old]] = NULL
  BY <1>1, <1>4
<1>10. Inside(t)' /\ InCall(t)'
  <2>1. states'[c.v] = NULL /\ states'[loaded'[fifo_head' + 1]] = NULL
    BY <1>1, <1>3, <1>6, <1>8 DEF old
  <2> QED BY <1>1, <1>3, <1>6, <1>7, <2>1 DEF Inside, InCall
<1>11. t \in Readers => Reading(t)'
  BY <1>1, <1>3, <1>6, <1>7 DEF Reading
<1>12. t = Writer => Recording'
  BY <1>1, <1>3, <1>6, <1>7 DEF Recording
<1>13. Calls' /\ Answered'
  BY <1>1, <1>3, <1>5, <1>6, <1>7, <1>10, <1>11, <1>12, OneMoves
<1>14. ASSUME NEW v \in 1..MAX_VERSIONS, states'[v] # NULL
       PROVE  v # old /\ states'[v] = states[v] /\ maps'[states'[v]] = maps[states[v]]
  <2>1. v # old /\ states'[v] = states[v] /\ states[v] \in Maps
    BY <1>4, <1>8, <1>14
  <2>2. states[v] # states[old]
    BY <1>4, <1>14, <2>1 DEF CacheInv, Pointers
  <2> QED BY <1>9, <2>1, <2>2
<1>15. Coherent'
  <2>1. ASSUME NEW v, Filling(v) PROVE Filling(v)'
    BY <1>2, <1>1, <1>3, <2>1 DEF Filling, Inside
  <2> QED BY <1>1, <1>14, <2>1 DEF CacheInv, Coherent
<1>16. CacheTypes'
  BY <1>1, <1>7, <1>8, <1>9 DEF CacheInv, CacheTypes
<1>17. Pointers'
  <2>1. ASSUME NEW v \in 1..MAX_VERSIONS, states'[v] # NULL
        PROVE  /\ maps'[states'[v]] # NULL
               /\ \A w \in 1..MAX_VERSIONS : states'[w] = states'[v] => w = v
               /\ \E k \in 1..Len(loaded') : loaded'[k] = v
    BY <1>1, <1>14, <2>1, SMT DEF CacheInv, Pointers
  <2>2. ASSUME NEW a \in Maps, maps'[a] # NULL PROVE \E v \in 1..MAX_VERSIONS : states'[v] = a
    <3>1. maps[a] # NULL /\ a # states[old]
      BY <1>9, <2>2, CacheAssumption
    <3>2. PICK v \in 1..MAX_VERSIONS : states[v] = a
      BY <3>1 DEF CacheInv, Pointers
    <3> QED BY <1>8, <3>1, <3>2
  <2> QED BY <2>1, <2>2 DEF Pointers
<1> QED BY <1>7, <1>13, <1>15, <1>16, <1>17 DEF CacheInv

\* Taking over the slot whose map has been freed.
LEMMA ReplaceKept ==
    ASSUME CacheInv, NEW t \in CacheThreads, EvictReplace(t)
    PROVE  CacheInv'
<1> DEFINE c == [th[t] EXCEPT !.pc = "alloc", !.i = 0]
<1>1. /\ th[t].pc = "replace"
      /\ UNCHANGED <<log, version, states, maps>>
      /\ loaded' = [loaded EXCEPT ![th[t].i + 1] = th[t].v]
      /\ fifo_head' = (fifo_head + 1) % MAX_RAM_VERSIONS
      /\ Set(t, c)
  BY DEF EvictReplace
<1>2. Inside(t)
  BY <1>1 DEF Inside
<1>3. /\ th[t] \in ThreadState /\ InCall(t)
      /\ t \in Readers => Reading(t)
      /\ t = Writer => Recording
      /\ \A u \in CacheThreads \ {t} : ~ Inside(u)
      /\ th[t].v <= MAX_VERSIONS => th[t].v \in 1..MAX_VERSIONS
  BY <1>2, AtStep
<1>4. /\ th[t].v \in 1..MAX_VERSIONS /\ states[th[t].v] = NULL
      /\ Len(loaded) = MAX_RAM_VERSIONS /\ th[t].i = fifo_head
      /\ states[loaded[fifo_head + 1]] = NULL
  BY <1>1, <1>3 DEF InCall
<1>5. /\ fifo_head \in Nat /\ fifo_head + 1 \in 1..Len(loaded)
      /\ loaded \in Seq(1..MAX_VERSIONS)
      /\ fifo_head' \in 0..(MAX_RAM_VERSIONS - 1)
  BY <1>1, <1>4, CacheAssumption, SMT DEF CacheInv, CacheTypes
<1>6. c \in ThreadState
  <2>1. "alloc" \in PCs /\ 0 \in Nat
    BY DEF PCs
  <2> QED BY <1>3, <2>1, ThreadUpdates
<1>7. /\ c.v = th[t].v /\ c.ver = th[t].ver /\ c.blk = th[t].blk /\ c.failed = th[t].failed
      /\ c.want = th[t].want /\ c.pc = "alloc" /\ c.map = th[t].map
  BY <1>3 DEF ThreadState
<1> HIDE DEF c
<1>8. th'[t] = c /\ th' \in [CacheThreads -> ThreadState] /\ Alone'
  BY <1>1, <1>3, <1>6, OneMoves
<1>9. /\ loaded' \in Seq(1..MAX_VERSIONS) /\ Len(loaded') = Len(loaded)
      /\ loaded'[fifo_head + 1] = th[t].v
      /\ \A k \in 1..Len(loaded) : k # fifo_head + 1 => loaded'[k] = loaded[k]
  BY <1>1, <1>4, <1>5, SMT
<1>10. Inside(t)' /\ InCall(t)'
  <2>1. \E k \in 1..Len(loaded') : loaded'[k] = c.v
    BY <1>5, <1>7, <1>9
  <2> QED BY <1>1, <1>3, <1>4, <1>7, <1>8, <2>1 DEF Inside, InCall
<1>11. t \in Readers => Reading(t)'
  BY <1>1, <1>3, <1>7, <1>8 DEF Reading
<1>12. t = Writer => Recording'
  BY <1>1, <1>3, <1>7, <1>8 DEF Recording
<1>13. Calls' /\ Answered'
  BY <1>1, <1>3, <1>6, <1>7, <1>8, <1>10, <1>11, <1>12, OneMoves
<1>14. Coherent'
  BY <1>1, <1>6, CoherentStays
<1>15. CacheTypes'
  BY <1>1, <1>4, <1>5, <1>8, <1>9 DEF CacheInv, CacheTypes
<1>16. Pointers'
  <2>1. ASSUME NEW v \in 1..MAX_VERSIONS, states[v] # NULL
        PROVE  \E k \in 1..Len(loaded') : loaded'[k] = v
    <3>1. PICK k \in 1..Len(loaded) : loaded[k] = v
      BY <2>1 DEF CacheInv, Pointers
    <3>2. k # fifo_head + 1
      BY <1>4, <2>1, <3>1
    <3> QED BY <1>9, <3>1, <3>2
  <2> QED BY <1>1, <2>1 DEF CacheInv, Pointers
<1> QED BY <1>8, <1>13, <1>14, <1>15, <1>16 DEF CacheInv
\* A map in memory is not the null pointer.
LEMMA DeltaNotNull ==
    ASSUME NEW lg \in Seq(Record), NEW k \in 0..Len(lg), NEW v
    PROVE  DeltaTo(lg, k, v) # NULL
<1> DEFINE S == {b \in LogicalBlocks : HitsTo(lg, k, v, b) # {}}
           P(b) == PhysicalOf(lg[Latest(HitsTo(lg, k, v, b))], b)
<1>1. ASSUME NEW b \in S PROVE P(b) \in Int
  <2>1. Latest(HitsTo(lg, k, v, b)) \in HitsTo(lg, k, v, b)
    BY LastHit
  <2>2. Latest(HitsTo(lg, k, v, b)) \in 1..k
    BY <2>1 DEF HitsTo
  <2> DEFINE m == Latest(HitsTo(lg, k, v, b))
  <2>3. m \in DOMAIN lg
    BY <2>2, SMT
  <2>4. lg[m].logical_start_blk \in Nat /\ lg[m].physical_start_blk \in Nat
    BY <2>3, LogFields, RecordFields
  <2>5. b \in Nat
    BY CacheAssumption
  <2> HIDE DEF m
  <2>6. PhysicalOf(lg[m], b) \in Int
    BY <2>4, <2>5, SMT DEF PhysicalOf
  <2> QED BY <2>6 DEF m
<1>2. DeltaTo(lg, k, v) = [b \in S |-> P(b)]
  BY DEF DeltaTo
<1>3. S \in SUBSET LogicalBlocks
  OBVIOUS
<1> HIDE DEF S, P
<1>4. [b \in S |-> P(b)] \in [S -> Int]
  BY <1>1
<1> QED BY <1>2, <1>3, <1>4, CacheAssumption

\* A step of t that writes m, not null, to the map of its version, and goes on
\* filling it; the map may be new.
WritesMap(t, c, v, a, m) ==
    /\ Set(t, c) /\ c.pc \in {"replay", "log"} /\ c.v = v /\ th[t].v = v
    /\ \A u \in CacheThreads \ {t} : ~ Inside(u)
    /\ states[v] = NULL => maps[a] = NULL /\ \E k \in 1..Len(loaded) : loaded[k] = v
    /\ states[v] # NULL => states[v] = a
    /\ states' = [states EXCEPT ![v] = a]
    /\ m # NULL
    /\ DOMAIN maps' = Maps /\ maps'[a] = m
    /\ \A b \in Maps : b # a => maps'[b] = maps[b]
    /\ UNCHANGED <<log, version, loaded, fifo_head>>

\* Such a step keeps the pointers right and the other maps coherent.
LEMMA MapWritten ==
    ASSUME CacheInv, NEW t \in CacheThreads, NEW c \in ThreadState,
           NEW v \in 1..MAX_VERSIONS, NEW a \in Maps, NEW m, WritesMap(t, c, v, a, m)
    PROVE  CacheTypes' /\ Pointers' /\ Coherent' /\ states'[v] = a
<1> USE DEF WritesMap
<1>1. /\ states \in [1..MAX_VERSIONS -> Maps \cup {NULL}] /\ DOMAIN maps = Maps
      /\ th \in [CacheThreads -> ThreadState]
  BY DEF CacheInv, CacheTypes
<1>2. a # NULL
  BY CacheAssumption
<1>3. /\ states' \in [1..MAX_VERSIONS -> Maps \cup {NULL}] /\ states'[v] = a
      /\ \A w \in 1..MAX_VERSIONS : w # v => states'[w] = states[w]
  BY <1>1
<1>5. ASSUME NEW w \in 1..MAX_VERSIONS, w # v, states'[w] # NULL
      PROVE  states'[w] = states[w] /\ states[w] # a /\ maps'[states'[w]] = maps[states[w]]
  <2>1. states'[w] = states[w] /\ states[w] \in Maps
    BY <1>1, <1>3, <1>5
  <2>2. states[w] # a
    <3>1. CASE states[v] = NULL
      BY <1>5, <2>1, <3>1 DEF CacheInv, Pointers
    <3>2. CASE states[v] # NULL
      BY <1>2, <1>5, <2>1, <3>2, SMT DEF CacheInv, Pointers
    <3> QED BY <3>1, <3>2
  <2> QED BY <2>1, <2>2
<1>6. th' \in [CacheThreads -> ThreadState] /\ th'[t] = c
  BY <1>1 DEF Set
<1>7. CacheTypes'
  BY <1>3, <1>6 DEF CacheInv, CacheTypes
<1>8. Coherent'
  <2>1. Filling(v)'
    BY <1>6 DEF Filling
  <2>2. ASSUME NEW w, w # v PROVE ~ Filling(w)
    BY <2>2 DEF Filling, Inside
  <2> QED BY <1>5, <2>1, <2>2 DEF CacheInv, Coherent
<1>9. Pointers'
  <2>1. ASSUME NEW w \in 1..MAX_VERSIONS, states'[w] # NULL
        PROVE  /\ maps'[states'[w]] # NULL
               /\ \A x \in 1..MAX_VERSIONS : states'[x] = states'[w] => x = w
               /\ \E k \in 1..Len(loaded') : loaded'[k] = w
    <3>1. CASE w = v
      <4>1. maps'[states'[w]] # NULL
        BY <1>3, <3>1
      <4>2. \A x \in 1..MAX_VERSIONS : states'[x] = states'[w] => x = w
        BY <1>2, <1>3, <1>5, <3>1
      <4>3. \E k \in 1..Len(loaded) : loaded[k] = v
        BY DEF CacheInv, Pointers
      <4> QED BY <3>1, <4>1, <4>2, <4>3
    <3>2. CASE w # v
      <4>1. maps'[states'[w]] # NULL /\ \E k \in 1..Len(loaded') : loaded'[k] = w
        BY <1>5, <2>1, <3>2, SMT DEF CacheInv, Pointers
      <4>2. ASSUME NEW x \in 1..MAX_VERSIONS, states'[x] = states'[w] PROVE x = w
        BY <1>3, <1>5, <2>1, <3>2, <4>2, SMT DEF CacheInv, Pointers
      <4> QED BY <4>1, <4>2
    <3> QED BY <3>1, <3>2
  <2>2. ASSUME NEW b \in Maps, maps'[b] # NULL PROVE \E w \in 1..MAX_VERSIONS : states'[w] = b
    <3>1. CASE b = a
      BY <1>3, <3>1
    <3>2. CASE b # a
      <4>1. PICK w \in 1..MAX_VERSIONS : states[w] = b
        BY <2>2, <3>2 DEF CacheInv, Pointers
      <4>2. w # v
        BY <3>2, <4>1, CacheAssumption
      <4> QED BY <1>3, <4>1, <4>2
    <3> QED BY <3>1, <3>2
  <2> QED BY <2>1, <2>2 DEF Pointers
<1> QED BY <1>3, <1>7, <1>8, <1>9
\* A new map, empty, for the version of the call; or none.
LEMMA AllocKept ==
    ASSUME CacheInv, NEW t \in CacheThreads, Alloc(t)
    PROVE  CacheInv'
<1> DEFINE a == CHOOSE x \in FreeMaps : TRUE
           c == [th[t] EXCEPT !.pc = "replay", !.map = a, !.i = 1]
<1>1. /\ th[t].pc = "alloc" /\ UNCHANGED <<log, version, loaded, fifo_head>>
      /\ maps' = [maps EXCEPT ![a] = <<>>]
      /\ states' = [states EXCEPT ![th[t].v] = a]
      /\ Set(t, c)
  BY DEF Alloc
<1>2. a \in Maps /\ maps[a] = NULL
  <2>1. FreeMaps # {}
    BY DEF Alloc
  <2>2. a \in FreeMaps
    BY <2>1
  <2> HIDE DEF a
  <2> QED BY <2>2 DEF FreeMaps
<1>3. Inside(t)
  BY <1>1 DEF Inside
<1>4. /\ th[t] \in ThreadState /\ InCall(t)
      /\ t \in Readers => Reading(t)
      /\ t = Writer => Recording
      /\ \A u \in CacheThreads \ {t} : ~ Inside(u)
      /\ th[t].v <= MAX_VERSIONS => th[t].v \in 1..MAX_VERSIONS
  BY <1>3, AtStep
<1>5. /\ th[t].v \in 1..MAX_VERSIONS /\ states[th[t].v] = NULL
      /\ \E k \in 1..Len(loaded) : loaded[k] = th[t].v
  BY <1>1, <1>4 DEF InCall
<1> HIDE DEF a
<1>6. c \in ThreadState
  <2>1. "replay" \in PCs /\ 1 \in Nat /\ a \in Maps \cup {NULL}
    BY <1>2 DEF PCs
  <2> QED BY <1>4, <2>1, ThreadUpdates
<1>7. /\ c.v = th[t].v /\ c.ver = th[t].ver /\ c.blk = th[t].blk /\ c.failed = th[t].failed
      /\ c.want = th[t].want /\ c.pc = "replay" /\ c.map = a /\ c.i = 1
  BY <1>4 DEF ThreadState
<1> HIDE DEF c
<1>8. th'[t] = c /\ th' \in [CacheThreads -> ThreadState] /\ Alone'
  BY <1>1, <1>4, <1>6, OneMoves
<1>9. log \in Seq(Record) /\ Len(log) \in Nat
  BY SMT DEF CacheInv, CacheTypes
<1>10. DeltaTo(log, 0, th[t].v) = << >> /\ << >> # NULL
  <2>1. DeltaTo(log, 0, th[t].v) = << >>
    BY DeltaNone
  <2>2. DeltaTo(log, 0, th[t].v) # NULL
    BY <1>9, DeltaNotNull, SMT
  <2> QED BY <2>1, <2>2
<1>16. DOMAIN maps' = Maps /\ maps'[a] = << >> /\ \A b \in Maps : b # a => maps'[b] = maps[b]
  BY <1>1, <1>2 DEF CacheInv, CacheTypes
<1>11. CacheTypes' /\ Pointers' /\ Coherent' /\ states'[th[t].v] = a
  <2>1. WritesMap(t, c, th[t].v, a, << >>)
    BY <1>1, <1>2, <1>4, <1>5, <1>7, <1>10, <1>16 DEF WritesMap
  <2> QED BY <1>2, <1>5, <1>6, <2>1, MapWritten
<1>12. Inside(t)' /\ InCall(t)'
  <2>1. maps'[c.map] = DeltaTo(log', c.i - 1, c.v)
    BY <1>1, <1>7, <1>10, <1>16, SMT
  <2>2. c.i \in 1..(Len(log') + 1) /\ c.map # NULL /\ states'[c.v] = c.map
    BY <1>1, <1>2, <1>7, <1>9, <1>11, CacheAssumption, SMT
  <2> QED BY <1>4, <1>1, <1>7, <1>8, <2>1, <2>2 DEF Inside, InCall
<1>13. t \in Readers => Reading(t)'
  BY <1>1, <1>4, <1>7, <1>8 DEF Reading
<1>14. t = Writer => Recording'
  BY <1>1, <1>4, <1>7, <1>8 DEF Recording
<1>15. Calls' /\ Answered'
  BY <1>1, <1>4, <1>6, <1>7, <1>8, <1>12, <1>13, <1>14, OneMoves
<1> QED BY <1>8, <1>11, <1>15 DEF CacheInv

\* Without memory for a map the call finds nothing, and the version keeps its slot.
LEMMA AllocFailsKept ==
    ASSUME CacheInv, NEW t \in CacheThreads, AllocFails(t)
    PROVE  CacheInv'
<1> DEFINE c == [th[t] EXCEPT !.pc = "null", !.failed = TRUE]
<1>1. /\ th[t].pc = "alloc" /\ UNCHANGED <<log, version, cacheVars>> /\ Set(t, c)
  BY DEF AllocFails
<1>2. Inside(t)
  BY <1>1 DEF Inside
<1>3. /\ th[t] \in ThreadState /\ InCall(t)
      /\ t \in Readers => Reading(t)
      /\ t = Writer => Recording
      /\ \A u \in CacheThreads \ {t} : ~ Inside(u)
  BY <1>2, AtStep
<1>4. c \in ThreadState
  <2>1. "null" \in PCs /\ TRUE \in BOOLEAN
    BY DEF PCs
  <2> QED BY <1>3, <2>1, ThreadUpdates
<1>5. /\ c.v = th[t].v /\ c.ver = th[t].ver /\ c.blk = th[t].blk /\ c.failed = TRUE
      /\ c.want = th[t].want /\ c.pc = "null" /\ c.map = th[t].map
  BY <1>3 DEF ThreadState
<1> HIDE DEF c
<1>6. th'[t] = c /\ th' \in [CacheThreads -> ThreadState] /\ Alone'
  BY <1>1, <1>3, <1>4, OneMoves
<1>7. Inside(t)' /\ InCall(t)'
  BY <1>1, <1>3, <1>5, <1>6 DEF Inside, InCall
<1>8. t \in Readers => Reading(t)'
  BY <1>1, <1>3, <1>5, <1>6 DEF Reading
<1>9. t = Writer => Recording'
  BY <1>1, <1>3, <1>5, <1>6 DEF Recording
<1>10. Calls' /\ Answered'
  BY <1>1, <1>3, <1>4, <1>5, <1>6, <1>7, <1>8, <1>9, OneMoves
<1>11. Coherent'
  BY <1>1, <1>4, CoherentStays DEF cacheVars
<1>12. CacheTypes' /\ Pointers'
  BY <1>1, <1>6 DEF CacheInv, CacheTypes, Pointers, cacheVars
<1> QED BY <1>6, <1>10, <1>11, <1>12 DEF CacheInv

\* Replaying one record of the log.
LEMMA ReplayKept ==
    ASSUME CacheInv, NEW t \in CacheThreads, Replay(t)
    PROVE  CacheInv'
<1> DEFINE i == th[t].i
           v == th[t].v
           a == th[t].map
           c == [th[t] EXCEPT !.i = i + 1]
           m == DeltaTo(log, i, v)
<1>1. Inside(t) /\ th[t].pc = "replay"
  BY DEF Replay, Inside
<1>2. /\ th[t] \in ThreadState /\ InCall(t)
      /\ t \in Readers => Reading(t)
      /\ t = Writer => Recording
      /\ \A u \in CacheThreads \ {t} : ~ Inside(u)
      /\ v <= MAX_VERSIONS => v \in 1..MAX_VERSIONS
  BY <1>1, AtStep
<1>3. /\ v \in 1..MAX_VERSIONS /\ a # NULL /\ states[v] = a
      /\ i \in 1..(Len(log) + 1) /\ maps[a] = DeltaTo(log, i - 1, v)
  BY <1>1, <1>2 DEF InCall
<1>4. /\ i <= Len(log) /\ Set(t, c) /\ UNCHANGED <<log, version, states, loaded, fifo_head>>
      /\ maps' = IF log[i].version_num = v THEN [maps EXCEPT ![a] = Overlay(Extent(log[i]), @)]
                 ELSE maps
  BY <1>3 DEF Replay
<1>5. /\ log \in Seq(Record) /\ Len(log) \in Nat /\ DOMAIN maps = Maps
      /\ states \in [1..MAX_VERSIONS -> Maps \cup {NULL}]
  BY SMT DEF CacheInv, CacheTypes
<1>6. i \in Nat /\ i \in 0..Len(log) /\ i - 1 \in Nat /\ i - 1 < Len(log) /\ (i - 1) + 1 = i
  BY <1>3, <1>4, <1>5, SMT
<1>7. a \in Maps
  BY <1>3, <1>5
<1>8. c \in ThreadState
  <2>1. i + 1 \in Nat
    BY <1>6, SMT
  <2> QED BY <1>2, <2>1, ThreadUpdates
<1>9. /\ c.v = v /\ c.ver = th[t].ver /\ c.blk = th[t].blk /\ c.failed = th[t].failed
      /\ c.want = th[t].want /\ c.pc = "replay" /\ c.map = a /\ c.i = i + 1
  BY <1>1, <1>2 DEF ThreadState
<1>10. m = IF log[i].version_num = v THEN Overlay(Extent(log[i]), DeltaTo(log, i - 1, v))
           ELSE DeltaTo(log, i - 1, v)
  BY <1>5, <1>6, DeltaStep, SMT
<1>11. m # NULL
  BY <1>5, <1>6, DeltaNotNull
<1> HIDE DEF m, c, a, v, i
<1>12. DOMAIN maps' = Maps /\ maps'[a] = m /\ \A b \in Maps : b # a => maps'[b] = maps[b]
  BY <1>3, <1>4, <1>5, <1>7, <1>10
<1>13. states' = [states EXCEPT ![v] = a]
  BY <1>3, <1>4, <1>5
<1>14. th'[t] = c /\ th' \in [CacheThreads -> ThreadState] /\ Alone'
  BY <1>2, <1>4, <1>8, OneMoves
<1>15. th[t].v = v
  BY DEF v
<1>16. /\ CacheTypes' /\ Pointers' /\ Coherent'
       /\ states'[v] = a
  <2>1. WritesMap(t, c, v, a, m)
    BY <1>2, <1>3, <1>4, <1>9, <1>11, <1>12, <1>13, <1>15 DEF WritesMap
  <2> QED BY <1>3, <1>7, <1>8, <2>1, MapWritten
<1>17. Inside(t)' /\ InCall(t)'
  <2>1. c.i - 1 = i /\ c.i \in 1..(Len(log') + 1)
    BY <1>3, <1>4, <1>5, <1>6, <1>9, SMT
  <2>2. maps'[c.map] = DeltaTo(log', c.i - 1, c.v) /\ c.map # NULL /\ states'[c.v] = c.map
    BY <1>3, <1>4, <1>9, <1>12, <1>16, <2>1 DEF m
  <2>3. c.v >= 1 /\ c.ver >= 1 /\ c.v <= c.ver /\ c.v <= MAX_VERSIONS /\ c.blk \in LogicalBlocks
    <3>1. InCall(t)
      BY <1>2
    <3>2. th[t].v >= 1 /\ th[t].ver >= 1 /\ th[t].v <= th[t].ver /\ th[t].blk \in LogicalBlocks
      BY <3>1 DEF InCall
    <3>3. v <= MAX_VERSIONS
      BY <1>3, SMT
    <3> QED BY <1>9, <1>15, <3>2, <3>3
  <2> QED BY <1>9, <1>14, <2>1, <2>2, <2>3 DEF Inside, InCall
<1>18. t \in Readers => Reading(t)'
  BY <1>2, <1>4, <1>9, <1>14, <1>15 DEF Reading
<1>19. t = Writer => Recording'
  BY <1>2, <1>4, <1>9, <1>14, <1>15 DEF Recording
<1>20. Calls' /\ Answered'
  BY <1>2, <1>4, <1>8, <1>9, <1>14, <1>17, <1>18, <1>19, OneMoves
<1> QED BY <1>14, <1>16, <1>20 DEF CacheInv
\* The end of the log: the map says what the log says of its version.
LEMMA ReplayEndsKept ==
    ASSUME CacheInv, NEW t \in CacheThreads, ReplayEnds(t)
    PROVE  CacheInv'
<1> DEFINE c == [th[t] EXCEPT !.pc = "use", !.i = 0]
<1>1. /\ th[t].pc = "replay" /\ th[t].i > Len(log)
      /\ UNCHANGED <<log, version, cacheVars>> /\ Set(t, c)
  BY DEF ReplayEnds
<1>2. Inside(t)
  BY <1>1 DEF Inside
<1>3. /\ th[t] \in ThreadState /\ InCall(t)
      /\ t \in Readers => Reading(t)
      /\ t = Writer => Recording
      /\ \A u \in CacheThreads \ {t} : ~ Inside(u)
  BY <1>2, AtStep
<1>4. c \in ThreadState
  <2>1. "use" \in PCs /\ 0 \in Nat
    BY DEF PCs
  <2> QED BY <1>3, <2>1, ThreadUpdates
<1>5. /\ c.v = th[t].v /\ c.ver = th[t].ver /\ c.blk = th[t].blk /\ c.failed = th[t].failed
      /\ c.want = th[t].want /\ c.pc = "use" /\ c.map = th[t].map
  BY <1>3 DEF ThreadState
<1> HIDE DEF c
<1>6. /\ th'[t] = c /\ th' \in [CacheThreads -> ThreadState] /\ Alone'
      /\ \A u \in CacheThreads \ {t} : ~ Inside(u)'
  BY <1>1, <1>3, <1>4, OneMoves
<1>7. Inside(t)' /\ InCall(t)'
  BY <1>1, <1>3, <1>5, <1>6 DEF Inside, InCall, cacheVars
<1>8. t \in Readers => Reading(t)'
  BY <1>1, <1>3, <1>5, <1>6 DEF Reading
<1>9. t = Writer => Recording'
  BY <1>1, <1>3, <1>5, <1>6 DEF Recording
<1>10. Calls' /\ Answered'
  BY <1>1, <1>3, <1>4, <1>5, <1>6, <1>7, <1>8, <1>9, OneMoves
<1>11. Coherent'
  <2>1. /\ states[th[t].v] = th[t].map
        /\ th[t].i \in 1..(Len(log) + 1) /\ maps[th[t].map] = DeltaTo(log, th[t].i - 1, th[t].v)
    BY <1>1, <1>3 DEF InCall
  <2>2. Len(log) \in Nat
    BY SMT DEF CacheInv, CacheTypes
  <2>3. th[t].i - 1 = Len(log)
    BY <1>1, <2>1, <2>2, SMT
  <2>4. maps[states[th[t].v]] = DeltaTo(log, Len(log), th[t].v)
    BY <2>1, <2>3
  <2>5. ASSUME NEW v, v # th[t].v PROVE ~ Filling(v)
    BY <1>3, <2>5 DEF Filling, Inside
  <2> QED BY <1>1, <2>4, <2>5 DEF CacheInv, Coherent, cacheVars
<1>12. CacheTypes' /\ Pointers'
  BY <1>1, <1>6 DEF CacheInv, CacheTypes, Pointers, cacheVars
<1> QED BY <1>6, <1>10, <1>11, <1>12 DEF CacheInv

-----------------------------------------------------------------------------
(* The loop of a reader.                                                   *)

\* The versions from ver down to v have been looked at: the first hit decides,
\* and without one the original file does.
LEMMA LookupLoop ==
    ASSUME NEW lg, NEW ver \in Nat, NEW v \in Nat, NEW L, 1 <= v, v <= ver,
           \A u \in (v + 1)..ver : u > MAX_VERSIONS \/ ~ InDelta(lg, u, L)
    PROVE  /\ v <= MAX_VERSIONS /\ InDelta(lg, v, L) => Lookup(lg, ver, L) = DeltaAt(lg, v, L)
           /\ v = 1 /\ (v > MAX_VERSIONS \/ ~ InDelta(lg, v, L)) =>
                Lookup(lg, ver, L) = IF L < OrigBlocks THEN L ELSE BLK_NOT_FOUND
<1> DEFINE H == HitVersions(lg, ver, L)
<1>0. MAX_VERSIONS \in Nat
  BY LogAssumption
<1>1. H \subseteq 1..ver /\ \A u \in H : u <= MAX_VERSIONS /\ InDelta(lg, u, L)
  BY DEF HitVersions
<1>2. \A u \in H : u <= v
  <2> SUFFICES ASSUME NEW u \in H, ~ (u <= v) PROVE FALSE
    OBVIOUS
  <2>1. u \in (v + 1)..ver /\ u <= MAX_VERSIONS /\ u \in Nat
    BY <1>1, SMT
  <2> QED BY <1>0, <1>1, <2>1, SMT
<1>3. ASSUME v <= MAX_VERSIONS, InDelta(lg, v, L)
      PROVE  Lookup(lg, ver, L) = DeltaAt(lg, v, L)
  <2>1. v \in H
    BY <1>3, SMT DEF HitVersions
  <2>2. H # {}
    BY <2>1
  <2> HIDE DEF H
  <2>3. Latest(H) = v
    BY <1>1, <1>2, <2>1, LatestIs
  <2> QED BY <2>2, <2>3 DEF Lookup, H
<1>4. ASSUME v = 1, v > MAX_VERSIONS \/ ~ InDelta(lg, v, L)
      PROVE  Lookup(lg, ver, L) = IF L < OrigBlocks THEN L ELSE BLK_NOT_FOUND
  <2>1. ASSUME NEW u \in H PROVE FALSE
    <3>1. u \in 1..ver /\ u <= v /\ u <= MAX_VERSIONS /\ InDelta(lg, u, L)
      BY <1>1, <1>2
    <3>2. u = v
      BY <1>4, <3>1, SMT
    <3> QED BY <1>0, <1>4, <3>1, <3>2, SMT
  <2>2. H = {}
    BY <2>1
  <2> QED BY <2>2 DEF Lookup
<1> QED BY <1>3, <1>4

\* What the map of a reader's version says.
LEMMA MapSays ==
    ASSUME CacheInv, NEW t \in Readers, th[t].pc = "use"
    PROVE  /\ th[t].blk \in DOMAIN maps[th[t].map] <=> InDelta(log, th[t].v, th[t].blk)
           /\ InDelta(log, th[t].v, th[t].blk) =>
                maps[th[t].map][th[t].blk] = DeltaAt(log, th[t].v, th[t].blk)
           /\ th[t].v \in 1..MAX_VERSIONS
<1>1. t \in CacheThreads /\ Inside(t)
  BY DEF CacheThreads, Inside
<1>2. /\ InCall(t) /\ \A u \in CacheThreads \ {t} : ~ Inside(u)
      /\ th[t].v <= MAX_VERSIONS => th[t].v \in 1..MAX_VERSIONS
  BY <1>1, AtStep
<1>3. /\ th[t].v \in 1..MAX_VERSIONS /\ th[t].map # NULL /\ states[th[t].v] = th[t].map
      /\ th[t].blk \in LogicalBlocks
  BY <1>2 DEF InCall
<1>4. ~ Filling(th[t].v)
  BY <1>2 DEF Filling, Inside
<1>5. maps[th[t].map] = DeltaTo(log, Len(log), th[t].v)
  BY <1>3, <1>4 DEF CacheInv, Coherent
<1> DEFINE v == th[t].v
           S == {b \in LogicalBlocks : InDelta(log, v, b)}
<1>6. DeltaTo(log, Len(log), v) = [L \in S |-> DeltaAt(log, v, L)]
  BY DeltaWhole DEF CacheInv, CacheTypes
<1>7. th[t].blk \in S <=> InDelta(log, v, th[t].blk)
  BY <1>3
<1> HIDE DEF S
<1> QED BY <1>3, <1>5, <1>6, <1>7
\* The redirects are block numbers.
LEMMA DeltaAtInt ==
    ASSUME NEW lg \in Seq(Record), NEW v, NEW L \in Nat, InDelta(lg, v, L)
    PROVE  DeltaAt(lg, v, L) \in Int
<1> DEFINE m == Latest(DeltaHits(lg, v, L))
<1>1. DeltaHits(lg, v, L) = HitsTo(lg, Len(lg), v, L) /\ Len(lg) \in 0..Len(lg)
  <2>1. DeltaHits(lg, v, L) = HitsTo(lg, Len(lg), v, L)
    BY DeltaWhole
  <2>2. Len(lg) \in 0..Len(lg)
    BY SMT
  <2> QED BY <2>1, <2>2
<1>2. m \in HitsTo(lg, Len(lg), v, L)
  BY <1>1, LastHit DEF InDelta
<1>3. m \in DOMAIN lg
  BY <1>2, SMT DEF HitsTo
<1>4. lg[m].logical_start_blk \in Nat /\ lg[m].physical_start_blk \in Nat
  BY <1>3, LogFields, RecordFields
<1> HIDE DEF m
<1>5. PhysicalOf(lg[m], L) \in Int
  BY <1>4, SMT DEF PhysicalOf
<1> QED BY <1>5 DEF DeltaAt, m

\* A reader leaves with an answer.
LEMMA FinishKept ==
    ASSUME CacheInv, NEW t \in Readers, th[t].pc \in {"use", "null"}, NEW res \in Int,
           Finish(t, res), UNCHANGED <<log, version, cacheVars>>,
           ~ th[t].failed => res = th[t].want
    PROVE  CacheInv'
<1> DEFINE c == [th[t] EXCEPT !.pc = "done", !.result = res, !.map = NULL]
<1>1. t \in CacheThreads /\ Inside(t) /\ Set(t, c) /\ t # Writer
  BY CacheAssumption DEF CacheThreads, Inside, Finish
<1>2. th[t] \in ThreadState /\ \A u \in CacheThreads \ {t} : ~ Inside(u)
  BY <1>1, AtStep
<1>3. c \in ThreadState
  <2>1. "done" \in PCs /\ NULL \in Maps \cup {NULL}
    BY DEF PCs
  <2> QED BY <1>2, <2>1, ThreadUpdates
<1>4. c.failed = th[t].failed /\ c.want = th[t].want /\ c.pc = "done" /\ c.map = NULL /\ c.result = res
  BY <1>2 DEF ThreadState
<1> HIDE DEF c
<1>5. /\ th'[t] = c /\ th' \in [CacheThreads -> ThreadState] /\ Alone'
  BY <1>1, <1>2, <1>3, OneMoves
<1>6. ~ Inside(t)'
  BY <1>4, <1>5 DEF Inside
<1>7. Calls' /\ Answered'
  BY <1>1, <1>2, <1>3, <1>4, <1>5, <1>6, OneMoves
<1>8. Coherent'
  BY <1>1, <1>3, CoherentStays DEF cacheVars
<1>9. CacheTypes' /\ Pointers'
  BY <1>5 DEF CacheInv, CacheTypes, Pointers, cacheVars
<1> QED BY <1>5, <1>7, <1>8, <1>9 DEF CacheInv

\* What a reader's loop has established when it looks at version v.
LEMMA LoopAt ==
    ASSUME CacheInv, NEW t \in Readers, Inside(t)
    PROVE  /\ th[t] \in ThreadState /\ th[t].v \in Nat /\ th[t].ver \in Nat /\ th[t].blk \in Nat
           /\ 1 <= th[t].v /\ th[t].v <= th[t].ver
           /\ th[t].blk \in LogicalBlocks
           /\ th[t].want = Lookup(log, th[t].ver, th[t].blk)
           /\ ~ th[t].failed => \A u \in (th[t].v + 1)..th[t].ver :
                                   u > MAX_VERSIONS \/ ~ InDelta(log, u, th[t].blk)
           /\ th[t].pc = "null" => th[t].failed \/ th[t].v > MAX_VERSIONS
<1>1. t \in CacheThreads
  BY DEF CacheThreads
<1>2. th[t] \in ThreadState /\ InCall(t) /\ Reading(t)
  BY <1>1, AtStep
<1>3. th[t].v \in Nat /\ th[t].ver \in Nat /\ th[t].blk \in Nat
  BY <1>2, ThreadFields
<1> QED BY <1>2, <1>3 DEF InCall, Reading

\* scorw_lookup_physical_block returns from a version's map.
LEMMA FoundKept ==
    ASSUME CacheInv, NEW t \in Readers, Found(t)
    PROVE  CacheInv'
<1> DEFINE res == maps[th[t].map][th[t].blk]
<1>1. /\ th[t].pc = "use" /\ th[t].blk \in DOMAIN maps[th[t].map]
      /\ Finish(t, res) /\ UNCHANGED <<log, version, cacheVars>>
  BY DEF Found
<1>2. Inside(t)
  BY <1>1 DEF Inside
<1>3. /\ InDelta(log, th[t].v, th[t].blk) /\ res = DeltaAt(log, th[t].v, th[t].blk)
      /\ th[t].v <= MAX_VERSIONS
  BY <1>1, MapSays, LogAssumption, SMT
<1>4. res \in Int
  <2>1. log \in Seq(Record) /\ th[t].blk \in Nat
    BY <1>2, LoopAt DEF CacheInv, CacheTypes
  <2> QED BY <1>3, <2>1, DeltaAtInt
<1>5. ~ th[t].failed => res = th[t].want
  BY <1>2, <1>3, LoopAt, LookupLoop, SMT
<1> HIDE DEF res
<1> QED BY <1>1, <1>4, <1>5, FinishKept

\* The version has nothing for the block, or no map could be had: the loop
\* goes on below, or returns what the original file has.
LEMMA NotFoundKept ==
    ASSUME CacheInv, NEW t \in Readers, NotFound(t)
    PROVE  CacheInv'
<1>1. th[t].pc \in {"use", "null"} /\ UNCHANGED <<log, version, cacheVars>>
  BY DEF NotFound
<1>2. Inside(t) /\ t \in CacheThreads /\ t # Writer
  BY <1>1, CacheAssumption DEF Inside, CacheThreads
<1>3. ~ th[t].failed => th[t].v > MAX_VERSIONS \/ ~ InDelta(log, th[t].v, th[t].blk)
  <2>1. CASE th[t].pc = "null"
    BY <1>2, <2>1, LoopAt
  <2>2. CASE th[t].pc = "use"
    BY <2>2, MapSays DEF NotFound
  <2> QED BY <1>1, <2>1, <2>2
<1>4. th[t].v \in Nat /\ th[t].ver \in Nat /\ th[t].blk \in Nat /\ 1 <= th[t].v /\ th[t].v <= th[t].ver
  BY <1>2, LoopAt
<1>5. CASE ~ (th[t].v > 1)
  <2> DEFINE res == IF th[t].blk < OrigBlocks THEN th[t].blk ELSE BLK_NOT_FOUND
  <2>1. th[t].v = 1
    BY <1>4, <1>5, SMT
  <2>2. ~ th[t].failed => res = th[t].want
    <3> SUFFICES ASSUME ~ th[t].failed PROVE res = th[t].want
      OBVIOUS
    <3>1. \A u \in (th[t].v + 1)..th[t].ver : u > MAX_VERSIONS \/ ~ InDelta(log, u, th[t].blk)
      BY <1>2, LoopAt
    <3>2. Lookup(log, th[t].ver, th[t].blk) = res
      <4>1. th[t].v = 1 /\ (th[t].v > MAX_VERSIONS \/ ~ InDelta(log, th[t].v, th[t].blk)) =>
              Lookup(log, th[t].ver, th[t].blk) = res
        BY <1>4, <3>1, LookupLoop
      <4> QED BY <1>3, <2>1, <4>1
    <3> QED BY <1>2, <3>2, LoopAt
  <2>3. res \in Int
    BY <1>4, LogAssumption, SMT DEF BLK_NOT_FOUND
  <2>4. Finish(t, res)
    BY <1>5 DEF NotFound
  <2> HIDE DEF res
  <2> QED BY <1>1, <2>2, <2>3, <2>4, FinishKept
<1>6. CASE th[t].v > 1
  <2> DEFINE c == [th[t] EXCEPT !.pc = "get", !.v = th[t].v - 1, !.map = NULL]
  <2>1. Set(t, c)
    BY <1>6 DEF NotFound
  <2>2. /\ th[t] \in ThreadState /\ InCall(t) /\ Reading(t)
        /\ \A u \in CacheThreads \ {t} : ~ Inside(u)
    BY <1>2, AtStep
  <2>3. c \in ThreadState
    <3>1. "get" \in PCs /\ th[t].v - 1 \in Nat /\ NULL \in Maps \cup {NULL}
      BY <1>4, <1>6, SMT DEF PCs
    <3> QED BY <2>2, <3>1, ThreadUpdates
  <2>4. /\ c.v = th[t].v - 1 /\ c.ver = th[t].ver /\ c.blk = th[t].blk /\ c.failed = th[t].failed
        /\ c.want = th[t].want /\ c.pc = "get" /\ c.map = NULL
    BY <2>2 DEF ThreadState
  <2> HIDE DEF c
  <2>5. th'[t] = c /\ th' \in [CacheThreads -> ThreadState] /\ Alone'
    BY <1>2, <2>1, <2>2, <2>3, OneMoves
  <2>6. Inside(t)' /\ InCall(t)'
    <3>1. c.v >= 1 /\ c.ver >= 1 /\ c.v <= c.ver
      BY <1>4, <1>6, <2>4, SMT
    <3> QED BY <2>2, <2>4, <2>5, <3>1 DEF Inside, InCall
  <2>7. Reading(t)'
    <3>1. ASSUME NEW u \in (c.v + 1)..c.ver
          PROVE  c.failed \/ u > MAX_VERSIONS \/ ~ InDelta(log, u, c.blk)
      <4>1. CASE u = th[t].v
        BY <1>3, <2>4, <4>1
      <4>2. CASE u # th[t].v
        <5>1. u \in (th[t].v + 1)..th[t].ver
          BY <1>4, <2>4, <4>2, SMT
        <5> QED BY <2>2, <2>4, <5>1 DEF Reading
      <4> QED BY <4>1, <4>2
    <3> QED BY <1>1, <2>2, <2>4, <2>5, <3>1 DEF Reading
  <2>8. Calls' /\ Answered'
    BY <1>2, <2>1, <2>2, <2>3, <2>4, <2>5, <2>6, <2>7, OneMoves
  <2>9. Coherent'
    BY <1>1, <1>2, <2>1, <2>3, CoherentStays DEF cacheVars
  <2>10. CacheTypes' /\ Pointers'
    BY <1>1, <2>5 DEF CacheInv, CacheTypes, Pointers, cacheVars
  <2> QED BY <2>5, <2>8, <2>9, <2>10 DEF CacheInv
<1> QED BY <1>5, <1>6
-----------------------------------------------------------------------------
(* The writer.                                                             *)

\* The record of the write under way, and what the log will say with it.
LEMMA RecordIs ==
    ASSUME CacheInv, Inside(Writer)
    PROVE  /\ NewRecord \in Record /\ NewRecord.version_num = th[Writer].v
           /\ log \in Seq(Record) /\ Len(log) \in Nat
           /\ Append(log, NewRecord) \in Seq(Record)
           /\ Len(Append(log, NewRecord)) = Len(log) + 1
           /\ \A u : DeltaTo(Append(log, NewRecord), Len(log) + 1, u) =
                       IF u = th[Writer].v
                       THEN Overlay(Extent(NewRecord), DeltaTo(log, Len(log), u))
                       ELSE DeltaTo(log, Len(log), u)
<1>1. Writer \in CacheThreads
  BY DEF CacheThreads
<1>2. th[Writer] \in ThreadState /\ InCall(Writer) /\ Recording
  BY <1>1, AtStep
<1>3. th[Writer].ver \in Nat \ {0} /\ th[Writer].blk \in Nat /\ th[Writer].ver = th[Writer].v
  BY <1>2, ThreadFields, SMT DEF InCall, Recording
<1>4. log \in Seq(Record) /\ Len(log) \in Nat
  BY SMT DEF CacheInv, CacheTypes
<1>5. OrigBlocks + Len(log) \in Nat /\ 1 \in Nat \ {0}
  BY <1>4, LogAssumption, SMT
<1>6. NewRecord \in Record /\ NewRecord.version_num = th[Writer].v
  BY <1>3, <1>5 DEF NewRecord, NextPhysical, Record
<1> DEFINE r == NewRecord
           lg == Append(log, r)
<1> HIDE DEF r
<1>7. lg \in Seq(Record) /\ Len(lg) = Len(log) + 1 /\ lg[Len(log) + 1] = r
  BY <1>4, <1>6, SMT DEF r
<1>8. ASSUME NEW u
      PROVE  DeltaTo(lg, Len(log) + 1, u) =
               IF u = th[Writer].v THEN Overlay(Extent(r), DeltaTo(log, Len(log), u))
               ELSE DeltaTo(log, Len(log), u)
  <2>1. Len(log) < Len(lg) /\ Len(log) \in 0..Len(log)
    BY <1>4, <1>7, SMT
  <2>2. DeltaTo(lg, Len(log), u) = DeltaTo(log, Len(log), u)
    BY <1>4, <1>6, <2>1, DeltaPrefix DEF r
  <2>3. r.version_num = th[Writer].v
    BY <1>6 DEF r
  <2> HIDE DEF lg
  <2>4. DeltaTo(lg, Len(log) + 1, u) =
          IF lg[Len(log) + 1].version_num = u
          THEN Overlay(Extent(lg[Len(log) + 1]), DeltaTo(lg, Len(log), u))
          ELSE DeltaTo(lg, Len(log), u)
    BY <1>4, <1>7, <2>1, DeltaStep
  <2> QED BY <1>7, <2>2, <2>3, <2>4
<1> QED BY <1>4, <1>6, <1>7, <1>8 DEF r

\* scorw_record_write stores the redirect in memory.
LEMMA StoreKept ==
    ASSUME CacheInv, RecordStore
    PROVE  CacheInv'
<1> DEFINE t == Writer
           v == th[t].v
           a == th[t].map
           c == [th[t] EXCEPT !.pc = "log"]
           m == DeltaTo(Append(log, NewRecord), Len(log) + 1, v)
<1>1. t \in CacheThreads /\ Inside(t) /\ th[t].pc = "use" /\ t \notin Readers
  BY CacheAssumption DEF RecordStore, Inside, CacheThreads
<1>2. /\ th[t] \in ThreadState /\ InCall(t) /\ Recording
      /\ \A u \in CacheThreads \ {t} : ~ Inside(u)
      /\ v <= MAX_VERSIONS => v \in 1..MAX_VERSIONS
  BY <1>1, AtStep
<1>3. v \in 1..MAX_VERSIONS /\ a # NULL /\ states[v] = a
  BY <1>1, <1>2 DEF InCall
<1>4. DOMAIN maps = Maps /\ states \in [1..MAX_VERSIONS -> Maps \cup {NULL}]
  BY DEF CacheInv, CacheTypes
<1>5. a \in Maps /\ maps[a] # NULL
  BY <1>3, <1>4, SMT DEF CacheInv, Pointers
<1>6. maps[a] = DeltaTo(log, Len(log), v)
  <2>1. ~ Filling(v)
    BY <1>1, <1>2 DEF Filling, Inside
  <2> QED BY <1>3, <2>1 DEF CacheInv, Coherent
<1>7. m = Overlay(Extent(NewRecord), maps[a])
  BY <1>1, <1>6, RecordIs
<1>8. /\ Set(t, c) /\ UNCHANGED <<log, version, states, loaded, fifo_head>>
      /\ maps' = [maps EXCEPT ![a] = m]
  BY <1>4, <1>5, <1>7 DEF RecordStore
<1>9. m # NULL
  <2>1. /\ Append(log, NewRecord) \in Seq(Record)
        /\ Len(log) + 1 \in 0..Len(Append(log, NewRecord))
    BY <1>1, RecordIs, SMT
  <2> QED BY <2>1, DeltaNotNull
<1>10. c \in ThreadState
  <2>1. "log" \in PCs
    BY DEF PCs
  <2> QED BY <1>2, <2>1, ThreadUpdates
<1>11. /\ c.v = v /\ c.ver = th[t].ver /\ c.blk = th[t].blk /\ c.pc = "log" /\ c.map = a
  BY <1>2 DEF ThreadState
<1>12. th[t].v = v
  OBVIOUS
<1> HIDE DEF c, m, v, a, t
<1>13. th'[t] = c /\ th' \in [CacheThreads -> ThreadState] /\ Alone'
  BY <1>1, <1>2, <1>8, <1>10, OneMoves
<1>14. DOMAIN maps' = Maps /\ maps'[a] = m /\ \A b \in Maps : b # a => maps'[b] = maps[b]
  BY <1>4, <1>5, <1>8
<1>15. states' = [states EXCEPT ![v] = a]
  BY <1>3, <1>4, <1>8
<1>16. CacheTypes' /\ Pointers' /\ Coherent' /\ states'[v] = a
  <2>1. WritesMap(t, c, v, a, m)
    BY <1>2, <1>3, <1>8, <1>9, <1>11, <1>12, <1>14, <1>15 DEF WritesMap
  <2> QED BY <1>1, <1>3, <1>5, <1>10, <2>1, MapWritten
<1>17. Inside(t)' /\ InCall(t)'
  <2>1. c.v >= 1 /\ c.ver >= 1 /\ c.v <= c.ver /\ c.blk \in LogicalBlocks /\ c.v <= MAX_VERSIONS
    BY <1>2, <1>3, <1>11, <1>12, SMT DEF InCall
  <2>2. c.map # NULL /\ states'[c.v] = c.map
    BY <1>3, <1>11, <1>16
  <2> QED BY <1>11, <1>13, <2>1, <2>2 DEF Inside, InCall
<1>18. Recording'
  <2>1. NewRecord' = NewRecord
    BY <1>8, <1>11, <1>13 DEF NewRecord, NextPhysical, t
  <2>2. DeltaTo(Append(log', NewRecord'), Len(log') + 1, c.v) = m
    BY <1>8, <1>11, <2>1 DEF m
  <2>3. c.v = c.ver
    BY <1>2, <1>11, <1>12 DEF Recording, t
  <2> QED BY <1>11, <1>13, <1>14, <2>2, <2>3 DEF Recording, t
<1>19. Calls' /\ Answered'
  BY <1>1, <1>2, <1>8, <1>10, <1>11, <1>13, <1>17, <1>18, OneMoves
<1> QED BY <1>13, <1>16, <1>19 DEF CacheInv

\* The states of a caller that has just returned or is about to start.
LEMMA QuietUpdates ==
    ASSUME NEW v \in Nat, NEW ver \in Nat, NEW L \in Nat, NEW w \in Int
    PROVE  /\ Quiet \in ThreadState
           /\ [Quiet EXCEPT !.pc = "done"] \in ThreadState
           /\ [Quiet EXCEPT !.pc = "get", !.v = v, !.ver = ver, !.blk = L] \in ThreadState
           /\ [Quiet EXCEPT !.pc = "get", !.v = v, !.ver = ver, !.blk = L, !.want = w] \in ThreadState
<1>1. /\ "idle" \in PCs /\ "done" \in PCs /\ "get" \in PCs /\ 0 \in Nat /\ BLK_NOT_FOUND \in Int
      /\ NULL \in Maps \cup {NULL} /\ FALSE \in BOOLEAN
  BY SMT DEF PCs, BLK_NOT_FOUND
<1>2. Quiet \in ThreadState
  BY <1>1, ZenonT(60) DEF Quiet, ThreadState
<1>3. /\ [Quiet EXCEPT !.pc = "done"] \in ThreadState
      /\ [Quiet EXCEPT !.pc = "get", !.v = v, !.ver = ver, !.blk = L] \in ThreadState
      /\ [Quiet EXCEPT !.pc = "get", !.v = v, !.ver = ver, !.blk = L, !.want = w] \in ThreadState
  BY <1>1, <1>2, ZenonT(60) DEF ThreadState
<1> QED BY <1>2, <1>3

\* ... appends the record to the log, or fails for want of a map.
LEMMA RecordKept ==
    ASSUME CacheInv, RecordLog \/ RecordFails
    PROVE  CacheInv'
<1> DEFINE t == Writer
           c == [Quiet EXCEPT !.pc = "done"]
<1>1. /\ t \in CacheThreads /\ Inside(t) /\ t \notin Readers /\ Set(t, c)
      /\ UNCHANGED <<version, cacheVars>>
      /\ th[t].pc \in {"log", "null"}
      /\ th[t].pc = "log" => log' = Append(log, NewRecord)
      /\ th[t].pc = "null" => log' = log
  BY CacheAssumption DEF RecordLog, RecordFails, Inside, CacheThreads
<1>2. /\ th[t] \in ThreadState /\ InCall(t) /\ Recording
      /\ \A u \in CacheThreads \ {t} : ~ Inside(u)
  BY <1>1, AtStep
<1>3. c \in ThreadState
  <2>1. 0 \in Nat /\ 0 \in Int
    BY SMT
  <2> QED BY <2>1, QuietUpdates
<1>4. c.pc = "done" /\ c.map = NULL
  BY DEF Quiet
<1> HIDE DEF c
<1>5. /\ th'[t] = c /\ th' \in [CacheThreads -> ThreadState] /\ Alone'
      /\ \A u \in CacheThreads \ {t} : ~ Inside(u)'
  BY <1>1, <1>2, <1>3, OneMoves
<1>6. ~ Inside(t)'
  BY <1>4, <1>5 DEF Inside
<1>7. Calls' /\ Answered'
  BY <1>1, <1>2, <1>3, <1>4, <1>5, <1>6, OneMoves
<1>8. log' \in Seq(Record)
  BY <1>1, RecordIs DEF CacheInv, CacheTypes
<1>9. CacheTypes' /\ Pointers'
  BY <1>1, <1>5, <1>8 DEF CacheInv, CacheTypes, Pointers, cacheVars
<1>10. Coherent'
  <2> SUFFICES ASSUME NEW u \in 1..MAX_VERSIONS, states[u] # NULL
               PROVE  maps[states[u]] = DeltaTo(log', Len(log'), u)
    BY <1>1 DEF Coherent, cacheVars
  <2>1. Filling(u) => th[t].pc = "log" /\ u = th[t].v
    BY <1>1, <1>2 DEF Filling, Inside
  <2>2. CASE th[t].pc = "null"
    BY <1>1, <2>1, <2>2 DEF CacheInv, Coherent
  <2>3. CASE th[t].pc = "log"
    <3>1. log' = Append(log, NewRecord) /\ Len(log') = Len(log) + 1
      BY <1>1, <2>3, RecordIs
    <3>2. CASE u = th[t].v
      <4>1. states[u] = th[t].map
        BY <1>2, <2>3, <3>2 DEF InCall
      <4>2. maps[th[t].map] = DeltaTo(Append(log, NewRecord), Len(log) + 1, u)
        BY <1>2, <2>3, <3>2 DEF Recording
      <4> QED BY <3>1, <4>1, <4>2
    <3>3. CASE u # th[t].v
      <4>1. maps[states[u]] = DeltaTo(log, Len(log), u)
        BY <2>1, <3>3 DEF CacheInv, Coherent
      <4>2. DeltaTo(Append(log, NewRecord), Len(log) + 1, u) = DeltaTo(log, Len(log), u)
        BY <1>1, <3>3, RecordIs
      <4> QED BY <3>1, <4>1, <4>2
    <3> QED BY <3>2, <3>3
  <2> QED BY <1>1, <2>2, <2>3
<1> QED BY <1>5, <1>7, <1>9, <1>10 DEF CacheInv
-----------------------------------------------------------------------------
(* Calls begin, transactions end, the cache is dropped.                    *)

\* A call of a reader or of the writer begins.
LEMMA StartKept ==
    ASSUME CacheInv, NEW L \in LogicalBlocks,
           \/ \E t \in Readers, ver \in 1..version : StartLookup(t, ver, L)
           \/ \E inTxn \in BOOLEAN : StartRecord(L, inTxn)
    PROVE  CacheInv'
<1>1. log \in Seq(Record) /\ version \in Nat \ {0} /\ L \in Nat /\ ~ Overlap
  BY CacheAssumption DEF CacheInv, CacheTypes
<1>2. PICK t \in CacheThreads, ver \in Nat, c \in ThreadState :
        /\ MayStart(t) /\ Set(t, c) /\ ver >= 1
        /\ c.pc = "get" /\ c.v = ver /\ c.ver = ver /\ c.blk = L /\ c.map = NULL
        /\ t \in Readers => c.want = Lookup(log, ver, L)
        /\ version' \in Nat \ {0} /\ UNCHANGED <<log, cacheVars>>
  <2>1. CASE \E t \in Readers, ver \in 1..version : StartLookup(t, ver, L)
    <3>1. PICK t \in Readers, ver \in 1..version : StartLookup(t, ver, L)
      BY <2>1
    <3> DEFINE c == [Quiet EXCEPT !.pc = "get", !.v = ver, !.ver = ver, !.blk = L,
                                  !.want = Lookup(log, ver, L)]
    <3>2. t \in CacheThreads /\ ver \in Nat /\ ver >= 1
      BY <1>1, SMT DEF CacheThreads
    <3>3. Lookup(log, ver, L) \in Int
      <4>1. Lookup(log, ver, L) # BLK_NOT_FOUND => Lookup(log, ver, L) \in Nat
        BY <1>1, <3>2, LookupFinds
      <4> QED BY <4>1, SMT DEF BLK_NOT_FOUND
    <3>4. c \in ThreadState
      BY <1>1, <3>2, <3>3, QuietUpdates
    <3>5. /\ c.pc = "get" /\ c.v = ver /\ c.ver = ver /\ c.blk = L /\ c.map = NULL
          /\ c.want = Lookup(log, ver, L)
      BY DEF Quiet
    <3>6. MayStart(t) /\ Set(t, c) /\ UNCHANGED <<log, version, cacheVars>>
      BY <3>1 DEF StartLookup
    <3> HIDE DEF c
    <3> QED BY <1>1, <3>2, <3>4, <3>5, <3>6
  <2>2. CASE \E inTxn \in BOOLEAN : StartRecord(L, inTxn)
    <3> DEFINE ver == version + 1
               c == [Quiet EXCEPT !.pc = "get", !.v = ver, !.ver = ver, !.blk = L]
    <3>1. /\ MayStart(Writer) /\ Set(Writer, c) /\ UNCHANGED <<log, cacheVars>>
          /\ version' = version \/ version' = version + 1
      BY <2>2 DEF StartRecord
    <3>2. Writer \in CacheThreads /\ Writer \notin Readers /\ ver \in Nat /\ ver >= 1 /\ 0 \in Int
      BY <1>1, CacheAssumption, SMT DEF CacheThreads
    <3>3. c \in ThreadState
      BY <1>1, <3>2, QuietUpdates
    <3>4. c.pc = "get" /\ c.v = ver /\ c.ver = ver /\ c.blk = L /\ c.map = NULL
      BY DEF Quiet
    <3> HIDE DEF c
    <3> QED BY <1>1, <3>1, <3>2, <3>3, <3>4, SMT
  <2> QED BY <2>1, <2>2
<1>3. \A u \in CacheThreads : ~ Inside(u)
  BY <1>1, <1>2 DEF MayStart, Inside
<1>4. th'[t] = c /\ th' \in [CacheThreads -> ThreadState] /\ Alone'
  BY <1>2, <1>3, OneMoves
<1>5. Inside(t)' /\ InCall(t)'
  BY <1>2, <1>4, SMT DEF Inside, InCall
<1>6. t \in Readers => Reading(t)'
  BY <1>2, <1>4, SMT DEF Reading
<1>7. t = Writer => Recording'
  BY <1>2, <1>4 DEF Recording
<1>8. Calls' /\ Answered'
  BY <1>2, <1>3, <1>4, <1>5, <1>6, <1>7, OneMoves
<1>9. Coherent'
  <2>1. th[t].pc \notin {"replay", "log"}
    BY <1>2 DEF MayStart
  <2> QED BY <1>2, <2>1, CoherentStays DEF cacheVars
<1>10. /\ log' = log /\ states' = states /\ maps' = maps /\ loaded' = loaded
       /\ fifo_head' = fifo_head /\ version' \in Nat \ {0}
  BY <1>2 DEF cacheVars
<1>11. CacheTypes'
  BY <1>4, <1>10 DEF CacheInv, CacheTypes
<1>12. Pointers'
  BY <1>10 DEF CacheInv, Pointers
<1> QED BY <1>4, <1>8, <1>9, <1>11, <1>12 DEF CacheInv

\* END of a transaction only advances the version; scorw_cleanup_versions
\* leaves no map and no slot.
LEMMA EndKept ==
    ASSUME CacheInv, EndTransaction \/ Cleanup \/ UNCHANGED cacheAll
    PROVE  CacheInv'
<1>1. th' = th /\ log' = log /\ version' \in Nat \ {0}
  BY SMT DEF CacheInv, CacheTypes, EndTransaction, Cleanup, cacheAll
<1>2. Alone' /\ Answered' /\ \A u \in CacheThreads : Inside(u)' <=> Inside(u)
  BY <1>1 DEF CacheInv, Alone, Answered, Inside
<1>3. CASE UNCHANGED cacheVars
  <2>1. Calls'
    BY <1>1, <1>2, <1>3 DEF CacheInv, Calls, Inside, InCall, Reading, Recording, NewRecord,
                           NextPhysical, cacheVars
  <2>2. Coherent' /\ CacheTypes' /\ Pointers'
    BY <1>1, <1>3 DEF CacheInv, Coherent, CacheTypes, Pointers, Filling, cacheVars
  <2> QED BY <1>2, <2>1, <2>2 DEF CacheInv
<1>4. CASE Cleanup
  <2>1. /\ states' = [v \in 1..MAX_VERSIONS |-> NULL] /\ maps' = [a \in Maps |-> NULL]
        /\ loaded' = << >> /\ fifo_head' = 0
    BY <1>4 DEF Cleanup
  <2>2. \A u \in CacheThreads : ~ Inside(u)
    BY <1>4 DEF Cleanup, Inside
  <2>3. Calls'
    <3>1. Readers \subseteq CacheThreads /\ Writer \in CacheThreads
      BY DEF CacheThreads
    <3> QED BY <1>1, <1>2, <2>2, <3>1 DEF CacheInv, Calls
  <2>4. Coherent' /\ Pointers'
    BY <2>1 DEF Coherent, Pointers
  <2>5. CacheTypes'
    <3>1. log \in Seq(Record) /\ th \in [CacheThreads -> ThreadState] /\ MAX_RAM_VERSIONS \in Nat \ {0}
      BY CacheAssumption DEF CacheInv, CacheTypes
    <3>2. /\ states' \in [1..MAX_VERSIONS -> Maps \cup {NULL}] /\ DOMAIN maps' = Maps
          /\ loaded' \in Seq(1..MAX_VERSIONS) /\ Len(loaded') <= MAX_RAM_VERSIONS
          /\ fifo_head' \in 0..(MAX_RAM_VERSIONS - 1)
      BY <2>1, <3>1, SMT
    <3> QED BY <1>1, <3>1, <3>2 DEF CacheTypes
  <2> QED BY <1>2, <2>3, <2>4, <2>5 DEF CacheInv
<1> QED BY <1>3, <1>4 DEF EndTransaction, cacheAll

\* An empty cache and no call.
LEMMA CacheStarts == ~ Overlap /\ CacheInit => CacheInv
<1> SUFFICES ASSUME ~ Overlap, CacheInit PROVE CacheInv
  OBVIOUS
<1>1. th \in [CacheThreads -> ThreadState]
  <2>1. Quiet \in ThreadState
    <3>1. 0 \in Nat /\ 0 \in Int
      BY SMT
    <3> QED BY <3>1, QuietUpdates
  <2> QED BY <2>1 DEF CacheInit
<1>2. \A t \in CacheThreads : th[t].pc = "idle" /\ th[t].map = NULL
  BY DEF CacheInit, Quiet
<1>3. Readers \subseteq CacheThreads /\ Writer \in CacheThreads
  BY DEF CacheThreads
<1>4. Alone /\ Calls /\ Answered
  BY <1>2, <1>3 DEF Alone, Calls, Answered, Inside
<1>5. Coherent /\ Pointers
  BY DEF CacheInit, Coherent, Pointers
<1>6. CacheTypes
  BY <1>1, CacheAssumption, SMT DEF CacheInit, CacheTypes
<1> QED BY <1>4, <1>5, <1>6 DEF CacheInv

\* Every step keeps the invariant.
LEMMA CacheSteps == CacheInv /\ [CacheSerialNext]_cacheAll => CacheInv'
<1> SUFFICES ASSUME CacheInv, [CacheSerialNext]_cacheAll PROVE CacheInv'
  OBVIOUS
<1>1. ASSUME NEW t \in CacheThreads, GetOrCreate(t) PROVE CacheInv'
  BY <1>1, GetKept, RoomKept, FreeKept, ReplaceKept, AllocKept, AllocFailsKept, ReplayKept,
     ReplayEndsKept DEF GetOrCreate
<1>2. ASSUME NEW t \in Readers, Found(t) \/ NotFound(t) PROVE CacheInv'
  BY <1>2, FoundKept, NotFoundKept
<1>3. CASE \/ \E t \in Readers, ver \in 1..version, L \in LogicalBlocks : StartLookup(t, ver, L)
           \/ \E L \in LogicalBlocks, inTxn \in BOOLEAN : StartRecord(L, inTxn)
  BY <1>3, StartKept
<1>4. CASE RecordStore \/ RecordLog \/ RecordFails
  BY <1>4, StoreKept, RecordKept
<1>5. CASE EndTransaction \/ Cleanup \/ UNCHANGED cacheAll
  BY <1>5, EndKept
<1> QED BY <1>1, <1>2, <1>3, <1>4, <1>5 DEF CacheSerialNext

\* The maps in memory are at most as many as the slots: each belongs to a
\* version, each such version has a slot of its own.
LEMMA MapsBounded ==
    ASSUME CacheInv
    PROVE  Cardinality({a \in Maps : maps[a] # NULL}) <= MAX_RAM_VERSIONS
<1> DEFINE live == {a \in Maps : maps[a] # NULL}
           n == Len(loaded)
           slots == 1..n
           f == [k \in slots |-> states[loaded[k]]]
           img == {f[k] : k \in slots}
<1>1. n \in Nat /\ n <= MAX_RAM_VERSIONS /\ MAX_RAM_VERSIONS \in Nat
  BY CacheAssumption, SMT DEF CacheInv, CacheTypes
<1>2. IsFiniteSet(slots) /\ Cardinality(slots) = n
  <2>1. 1 \in Int /\ n \in Int
    BY <1>1, SMT
  <2>2. Cardinality(1..n) = IF 1 > n THEN 0 ELSE n - 1 + 1
    BY <2>1, FS_Interval
  <2>3. IsFiniteSet(1..n)
    BY <2>1, FS_Interval
  <2> HIDE DEF n
  <2>4. ASSUME NEW k, k = IF 1 > n THEN 0 ELSE n - 1 + 1 PROVE k = n
    BY <1>1, <2>4, SMT
  <2>5. Cardinality(1..n) = n
    BY <2>2, <2>4
  <2> QED BY <2>3, <2>5
<1>3. live \subseteq img
  <2> SUFFICES ASSUME NEW a \in Maps, maps[a] # NULL PROVE \E k \in slots : f[k] = a
    OBVIOUS
  <2>1. PICK v \in 1..MAX_VERSIONS : states[v] = a
    BY DEF CacheInv, Pointers
  <2>2. states[v] # NULL
    BY <2>1, CacheAssumption
  <2>3. PICK k \in 1..Len(loaded) : loaded[k] = v
    BY <2>2 DEF CacheInv, Pointers
  <2> QED BY <2>1, <2>3
<1> DEFINE T == img
<1>4. f \in Surjection(slots, img)
  BY DEF Surjection
<1> HIDE DEF slots, f, live, img
<1>5. IsFiniteSet(img) /\ Cardinality(img) <= Cardinality(slots)
  BY <1>2, <1>4, FS_Surjection
<1>6. IsFiniteSet(live) /\ Cardinality(live) <= Cardinality(img)
  BY <1>3, <1>5, FS_Subset
<1>7. Cardinality(live) \in Nat /\ Cardinality(img) \in Nat
  BY <1>5, <1>6, FS_CardinalityType
<1>8. Cardinality(live) <= MAX_RAM_VERSIONS
  BY <1>1, <1>2, <1>5, <1>6, <1>7, SMT
<1> QED BY <1>8 DEF live

\* The cached version maps stay within their bound and can all be evicted
\* (CacheBounded), say what the log says (CacheCoherent), and send every read
\* that met no failed allocation to the block the log has for its version
\* (LookupExact), for any number of versions, readers, blocks and maps, while
\* the calls into scorw_get_or_create_version do not overlap.
THEOREM CacheExactHolds == CacheSerialSpec => []CacheExact
<1>1. CacheInv => CacheExact
  <2> SUFFICES ASSUME CacheInv PROVE CacheExact
    OBVIOUS
  <2>1. loaded \in Seq(1..MAX_VERSIONS) /\ log \in Seq(Record)
    BY DEF CacheInv, CacheTypes
  <2>2. Range(loaded) \subseteq 1..MAX_VERSIONS /\ \A k \in 1..Len(loaded) : loaded[k] \in Range(loaded)
    <3>1. DOMAIN loaded = 1..Len(loaded)
      BY <2>1, SMT
    <3>2. \A k \in 1..Len(loaded) : loaded[k] \in 1..MAX_VERSIONS
      BY <2>1, ElementIn
    <3> QED BY <3>1, <3>2 DEF Range
  <2>3. CacheTypeOK
    BY <2>2 DEF CacheInv, CacheTypes, Pointers, CacheTypeOK
  <2>4. CacheBounded
    <3>1. \A v \in 1..MAX_VERSIONS : states[v] # NULL => v \in Range(loaded)
      BY <2>2, SMT DEF CacheInv, Pointers
    <3> QED BY <3>1, MapsBounded DEF CacheBounded
  <2>5. CacheCoherent
    BY <2>1, DeltaWhole DEF CacheInv, Coherent, CacheCoherent
  <2>6. LookupExact
    BY DEF CacheInv, Answered, LookupExact
  <2> QED BY <2>3, <2>4, <2>5, <2>6 DEF CacheExact
<1> QED BY <1>1, CacheStarts, CacheSteps, PTL DEF CacheSerialSpec
=============================================================================
