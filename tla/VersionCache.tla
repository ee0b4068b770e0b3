---------------------------- MODULE VersionCache ----------------------------
(***************************************************************************)
(* The cached version maps of a versioned parent.  The parent keeps, for   *)
(* each version, a pointer to a map from logical to physical blocks; at    *)
(* most MAX_RAM_VERSIONS of them are in memory, the oldest loaded one goes *)
(* first, and a map is filled from the log when it is created.             *)
(*                                                                         *)
(* Readers (reads of the parent and of every see-through child) and the    *)
(* writer use the same cache.  The code takes no lock for it: Overlap says *)
(* whether two calls may be inside it at once.                             *)
(***************************************************************************)
EXTENDS VersionLog, Functions

CONSTANTS
    MAX_RAM_VERSIONS, \* maps kept in memory
    Readers, Writer,  \* threads; at most one writer holds the inode lock
    LogicalBlocks,    \* blocks that are read and written
    Maps,             \* addresses of maps
    NULL,
    Overlap,          \* may calls overlap?
    AllocMayFail,     \* may kzalloc fail?
    MaxLog            \* bound on the length of the log

ASSUME CacheAssumption ==
    /\ MAX_RAM_VERSIONS \in Nat \ {0}
    /\ LogicalBlocks \subseteq Nat
    /\ NULL \notin Maps /\ \A S \in SUBSET LogicalBlocks : NULL \notin [S -> Int]
    /\ Writer \notin Readers

VARIABLES
    log,              \* the log file
    version,          \* scorw_inode.version
    states,           \* version_states
    maps,             \* the maps in memory, NULL where there is none
    loaded,           \* loaded_versions, up to loaded_version_count
    fifo_head,
    th                \* what each thread is doing

cacheVars == <<states, maps, loaded, fifo_head>>
cacheAll == <<log, version, cacheVars, th>>

CacheThreads == Readers \cup {Writer}

\* A thread: where it is, the version its loop is at, the version it asked
\* for, its block, the map it got, the next record to replay, the result,
\* what the log said when it started, and whether an allocation failed.
Quiet == [pc |-> "idle", v |-> 0, ver |-> 0, blk |-> 0, map |-> NULL, i |-> 0,
          result |-> BLK_NOT_FOUND, want |-> BLK_NOT_FOUND, failed |-> FALSE]

CacheInit ==
    /\ log = <<>>
    /\ version = 1
    /\ states = [v \in 1..MAX_VERSIONS |-> NULL]
    /\ maps = [a \in Maps |-> NULL]
    /\ loaded = <<>>
    /\ fifo_head = 0
    /\ th = [t \in CacheThreads |-> Quiet]

Set(t, state) == th' = [th EXCEPT ![t] = state]

MayStart(t) ==
    /\ th[t].pc \in {"idle", "done"}
    /\ Overlap \/ \A u \in CacheThreads : th[u].pc \in {"idle", "done"}

\* The parent's next data block: every write goes to the end of the file.
NextPhysical == OrigBlocks + Len(log)

\* A transaction has logged something and has not ended.
TxnOpen == log # <<>> /\ log[Len(log)].version_num = version + 1

-----------------------------------------------------------------------------
(* Callers.  scorw_lookup_physical_block starts at the version of the file *)
(* that is read: the parent's own or that of a child, which is a version   *)
(* the parent has reached.                                                 *)
StartLookup(t, ver, L) ==
    /\ MayStart(t) /\ t \in Readers
    /\ ver \in 1..version
    /\ Set(t, [Quiet EXCEPT !.pc = "get", !.v = ver, !.ver = ver, !.blk = L,
                            !.want = Lookup(log, ver, L)])
    /\ UNCHANGED <<log, version, cacheVars>>

(* scorw_record_write: a write of its own was given a new version before,  *)
(* a write inside a transaction goes to the next one.                      *)
StartRecord(L, inTxn) ==
    /\ MayStart(Writer)
    /\ Len(log) < MaxLog /\ version <= MAX_VERSIONS
    /\ inTxn \/ ~TxnOpen
    /\ version' = IF inTxn THEN version ELSE version + 1
    /\ Set(Writer, [Quiet EXCEPT !.pc = "get", !.v = version + 1, !.ver = version + 1,
                                 !.blk = L])
    /\ UNCHANGED <<log, cacheVars>>

\* END of a transaction.
EndTransaction ==
    /\ MayStart(Writer)
    /\ TxnOpen
    /\ version' = version + 1
    /\ UNCHANGED <<log, cacheVars, th>>

-----------------------------------------------------------------------------
(* scorw_get_or_create_version.                                            *)
GetOutOfRange(t) ==
    /\ th[t].pc = "get" /\ th[t].v > MAX_VERSIONS
    /\ Set(t, [th[t] EXCEPT !.pc = "null"])
    /\ UNCHANGED <<log, version, cacheVars>>

GetHit(t) ==
    /\ th[t].pc = "get" /\ th[t].v <= MAX_VERSIONS
    /\ states[th[t].v] # NULL
    /\ Set(t, [th[t] EXCEPT !.pc = "use", !.map = states[th[t].v]])
    /\ UNCHANGED <<log, version, cacheVars>>

Missing(t) ==
    /\ th[t].pc = "get" /\ th[t].v <= MAX_VERSIONS
    /\ states[th[t].v] = NULL

GetRoom(t) ==
    /\ Missing(t) /\ Len(loaded) < MAX_RAM_VERSIONS
    /\ loaded' = Append(loaded, th[t].v)
    /\ Set(t, [th[t] EXCEPT !.pc = "alloc"])
    /\ UNCHANGED <<log, version, states, maps, fifo_head>>

\* What is evicted is the slot at the head, if its version has a map.
EvictFree(t) ==
    LET old == loaded[fifo_head + 1] IN
    /\ Missing(t) /\ Len(loaded) = MAX_RAM_VERSIONS
    /\ maps' = IF states[old] = NULL THEN maps ELSE [maps EXCEPT ![states[old]] = NULL]
    /\ states' = [states EXCEPT ![old] = NULL]
    /\ Set(t, [th[t] EXCEPT !.pc = "replace", !.i = fifo_head])
    /\ UNCHANGED <<log, version, loaded, fifo_head>>

EvictReplace(t) ==
    /\ th[t].pc = "replace"
    /\ loaded' = [loaded EXCEPT ![th[t].i + 1] = th[t].v]
    /\ fifo_head' = (fifo_head + 1) % MAX_RAM_VERSIONS
    /\ Set(t, [th[t] EXCEPT !.pc = "alloc", !.i = 0])
    /\ UNCHANGED <<log, version, states, maps>>

\* Memory that kzalloc can hand out: no map, and no pointer to it.
FreeMaps == {a \in Maps : maps[a] = NULL /\ \A u \in CacheThreads : th[u].map # a}

Alloc(t) ==
    /\ th[t].pc = "alloc"
    /\ FreeMaps # {}
    /\ LET a == CHOOSE a \in FreeMaps : TRUE IN
          /\ maps' = [maps EXCEPT ![a] = <<>>]
          /\ states' = [states EXCEPT ![th[t].v] = a]
          /\ Set(t, [th[t] EXCEPT !.pc = "replay", !.map = a, !.i = 1])
    /\ UNCHANGED <<log, version, loaded, fifo_head>>

\* The slot of loaded_versions has been taken all the same.
AllocFails(t) ==
    /\ AllocMayFail
    /\ th[t].pc = "alloc"
    /\ Set(t, [th[t] EXCEPT !.pc = "null", !.failed = TRUE])
    /\ UNCHANGED <<log, version, cacheVars>>

-----------------------------------------------------------------------------
(* scorw_replay_log_version, one record a step.  It stores through         *)
(* version_states, not through the pointer of its caller.                  *)
Extent(rec) ==
    [L \in {b \in LogicalBlocks : Covers(rec, b)} |-> PhysicalOf(rec, L)]

\* The map m with the entries of e put over its own.
Overlay(e, m) ==
    [L \in DOMAIN e \cup DOMAIN m |-> IF L \in DOMAIN e THEN e[L] ELSE m[L]]

Replay(t) ==
    LET rec == log[th[t].i]
        a   == states[th[t].v]
    IN
    /\ th[t].pc = "replay" /\ th[t].i <= Len(log)
    /\ maps' = IF rec.version_num = th[t].v /\ a # NULL
               THEN [maps EXCEPT ![a] = Overlay(Extent(rec), @)]
               ELSE maps
    /\ Set(t, [th[t] EXCEPT !.i = th[t].i + 1])
    /\ UNCHANGED <<log, version, states, loaded, fifo_head>>

\* i_size of the log was read when the replay began; what the writer appends
\* meanwhile may or may not be seen.
ReplayEnds_early(t) ==
    /\ th[t].pc = "replay" /\ th[t].i >= Len(log)
    /\ Set(t, [th[t] EXCEPT !.pc = "use", !.i = 0])
    /\ UNCHANGED <<log, version, cacheVars>>
ReplayEnds(t) ==
    /\ th[t].pc = "replay" /\ th[t].i > Len(log)
    /\ Set(t, [th[t] EXCEPT !.pc = "use", !.i = 0])
    /\ UNCHANGED <<log, version, cacheVars>>

-----------------------------------------------------------------------------
(* The loop of scorw_lookup_physical_block.                                *)
Finish(t, res) == Set(t, [th[t] EXCEPT !.pc = "done", !.result = res, !.map = NULL])

Found(t) ==
    /\ t \in Readers /\ th[t].pc = "use" /\ maps[th[t].map] # NULL
    /\ th[t].blk \in DOMAIN maps[th[t].map]
    /\ Finish(t, maps[th[t].map][th[t].blk])
    /\ UNCHANGED <<log, version, cacheVars>>

\* The map has been freed under the reader: anything may come back.
FoundFreed(t) ==
    /\ t \in Readers /\ th[t].pc = "use" /\ maps[th[t].map] = NULL
    /\ \E res \in 0..(NextPhysical - 1) \cup {BLK_NOT_FOUND} : Finish(t, res)
    /\ UNCHANGED <<log, version, cacheVars>>

NotFound(t) ==
    /\ t \in Readers
    /\ \/ th[t].pc = "null"
       \/ /\ th[t].pc = "use" /\ maps[th[t].map] # NULL
          /\ th[t].blk \notin DOMAIN maps[th[t].map]
    /\ IF th[t].v > 1
       THEN Set(t, [th[t] EXCEPT !.pc = "get", !.v = th[t].v - 1, !.map = NULL])
       ELSE Finish(t, IF th[t].blk < OrigBlocks THEN th[t].blk ELSE BLK_NOT_FOUND)
    /\ UNCHANGED <<log, version, cacheVars>>

(* scorw_record_write with a map: memory first, then the log.              *)
NewRecord == [version_num |-> th[Writer].ver, logical_start_blk |-> th[Writer].blk,
              physical_start_blk |-> NextPhysical, len_blks |-> 1]

RecordStore ==
    /\ th[Writer].pc = "use"
    /\ maps' = IF maps[th[Writer].map] = NULL THEN maps
               ELSE [maps EXCEPT ![th[Writer].map] = Overlay(Extent(NewRecord), @)]
    /\ Set(Writer, [th[Writer] EXCEPT !.pc = "log"])
    /\ UNCHANGED <<log, version, states, loaded, fifo_head>>

RecordLog ==
    /\ th[Writer].pc = "log"
    /\ log' = Append(log, NewRecord)
    /\ Set(Writer, [Quiet EXCEPT !.pc = "done"])
    /\ UNCHANGED <<version, cacheVars>>

\* -ENOMEM: nothing is recorded.
RecordFails ==
    /\ th[Writer].pc = "null"
    /\ Set(Writer, [Quiet EXCEPT !.pc = "done"])
    /\ UNCHANGED <<log, version, cacheVars>>

(* scorw_cleanup_versions, when the last user of the parent is gone.       *)
Cleanup ==
    /\ \A t \in CacheThreads : th[t].pc \in {"idle", "done"}
    /\ states' = [v \in 1..MAX_VERSIONS |-> NULL]
    /\ maps' = [a \in Maps |-> NULL]
    /\ loaded' = <<>>
    /\ fifo_head' = 0
    /\ UNCHANGED <<log, version, th>>

GetOrCreate(t) ==
    \/ GetOutOfRange(t) \/ GetHit(t) \/ GetRoom(t)
    \/ EvictFree(t) \/ EvictReplace(t)
    \/ Alloc(t) \/ AllocFails(t)
    \/ Replay(t) \/ ReplayEnds(t)

CacheSerialNext ==
    \/ \E t \in Readers, ver \in 1..version, L \in LogicalBlocks : StartLookup(t, ver, L)
    \/ \E L \in LogicalBlocks, inTxn \in BOOLEAN : StartRecord(L, inTxn)
    \/ EndTransaction
    \/ \E t \in CacheThreads : GetOrCreate(t)
    \/ \E t \in Readers : Found(t) \/ NotFound(t)
    \/ RecordStore \/ RecordLog \/ RecordFails
    \/ Cleanup

\* Calls one after the other, and calls that overlap.
CacheSerialSpec == ~Overlap /\ CacheInit /\ [][CacheSerialNext]_cacheAll

CacheNext == CacheSerialNext \/ \E t \in Readers : FoundFreed(t)

CacheSpec == CacheInit /\ [][CacheNext]_cacheAll

-----------------------------------------------------------------------------
\* Every pointer of version_states leads to a map in memory, no two to the
\* same one.
CacheTypeOK ==
    /\ states \in [1..MAX_VERSIONS -> Maps \cup {NULL}]
    /\ Len(loaded) <= MAX_RAM_VERSIONS /\ Range(loaded) \subseteq 1..MAX_VERSIONS
    /\ fifo_head \in 0..(MAX_RAM_VERSIONS - 1)
    /\ \A v \in 1..MAX_VERSIONS : states[v] # NULL =>
          /\ maps[states[v]] # NULL
          /\ \A w \in 1..MAX_VERSIONS : states[w] = states[v] => w = v

\* However versions are loaded, evicted and fail to load, the parent never
\* keeps more than MAX_RAM_VERSIONS maps, and each map it keeps can be
\* found, and so evicted, through loaded_versions.
CacheBounded ==
    LET live == {v \in 1..MAX_VERSIONS : states[v] # NULL} IN
    /\ live \subseteq Range(loaded)
    /\ Cardinality({a \in Maps : maps[a] # NULL}) <= MAX_RAM_VERSIONS

Filling(v) == \E t \in CacheThreads : th[t].pc \in {"replay", "log"} /\ th[t].v = v

\* A map that nobody is filling says what the log says of its version,
\* whether it was replayed or built up by writes, and after any number of
\* evictions and reloads.
CacheCoherent ==
    \A v \in 1..MAX_VERSIONS :
        states[v] # NULL /\ ~Filling(v) =>
            maps[states[v]] = [L \in {b \in LogicalBlocks : InDelta(log, v, b)}
                                 |-> DeltaAt(log, v, L)]

\* A read that met no failed allocation is redirected to the newest block
\* that the log has for its version, as it was when the read began or, if a
\* write was under way, as it has become: no redirect is missed.
LookupExact ==
    \A t \in Readers :
        th[t].pc = "done" /\ th[t].ver > 0 /\ ~th[t].failed =>
            th[t].result \in {th[t].want, Lookup(log, th[t].ver, th[t].blk)}

\* The cached maps of versions stay within their bound and can all be evicted,
\* say what the log says, and send every read to the right block.
CacheExact == CacheTypeOK /\ CacheBounded /\ CacheCoherent /\ LookupExact
=============================================================================
