----------------------------- MODULE Writeback -----------------------------
(***************************************************************************)
(* Buffered writes and delayed allocation (inode.c, page-io.c): a write    *)
(* puts its data in the page cache over delayed blocks, writeback later    *)
(* allocates them as unwritten extents, submits the pages, moves           *)
(* i_disksize, and the end of the I/O converts the extents to written.     *)
(* Writes, writeback, the I/O and the journal's commits interleave.        *)
(*                                                                         *)
(* One file of WrPages pages of PageBlks blocks of BlkCells cells; i_size  *)
(* counts cells.  A cell holds 0, the number of the write that stored it,  *)
(* or Stale, what the medium or a fresh page held before.  The default     *)
(* mount options are modelled (extents, delalloc, dioread_nolock); mmap,   *)
(* inline data, data=journal and ordered-mode data are not.                *)
(***************************************************************************)
EXTENDS Integers, FiniteSets, FiniteSetsExt

CONSTANTS
    WrPages,    \* pages of the file
    PageBlks,   \* blocks in a page
    BlkCells,   \* cells in a block
    WrWrites,   \* the writes tried, <<pos, len>> within one page
    WrSizes,    \* the sizes truncate sets
    WrOps,      \* bound: writes and truncates
    WrFaults    \* bound: failed I/Os and failed allocations

VARIABLES
    wsize,      \* i_size
    wdsize,     \* i_disksize
    wmap,       \* the extent tree: block -> [st, at], at the physical block
    wdel,       \* blocks the extent status tree records as delayed
    wdisk,      \* the medium: block -> physical block -> cell contents
    wbuf,       \* buffer heads: block -> [st, dirty, up]
    wcell,      \* the page cache: cell contents
    wback,      \* pages under writeback
    wpass,      \* ext4_do_writepages: [st, first]
    wio,        \* io_ends not yet freed
    wcom,       \* what the last commit made durable: [map, dsize]
    wref,       \* what a reader must see
    wsync,      \* what fsync has promised, Stale where nothing
    werr,       \* an error is recorded that fsync has not returned yet
    wlost,      \* blocks that lost data, until they are cut off
    wbare,      \* blocks that became written extents without their data
    wgaveup,    \* whether writeback has thrown a page away
    wops, wfaults

wrFate == <<wlost, wbare, wgaveup>>
wrVars == <<wsize, wdsize, wmap, wdel, wdisk, wbuf, wcell, wback, wpass, wio,
            wcom, wref, wsync, werr, wrFate, wops, wfaults>>

Stale == -1
PageCells == PageBlks * BlkCells
WrPgs == 0 .. WrPages - 1
WrBlks == 0 .. WrPages * PageBlks - 1
WrCells == 0 .. WrPages * PageCells - 1

BlkOf(c) == c \div BlkCells
PgOf(c) == c \div PageCells
BlksOf(p) == p * PageBlks .. (p + 1) * PageBlks - 1
CellsOf(p) == p * PageCells .. (p + 1) * PageCells - 1
CellAt(b, k) == b * BlkCells + k

Hole == [st |-> "hole", at |-> 0]
NoBuf == [st |-> "none", dirty |-> FALSE, up |-> FALSE]
IdlePass == [st |-> "idle", first |-> 0]

\* The block starts below i_size, so that writeback looks at it.
InFile(b) == b * BlkCells < wsize

\* A dirty buffer that has no block to be written to, or an unwritten one
\* (mpage_add_bh_to_extent).
NeedsMap(b) == wbuf[b].dirty /\ wbuf[b].st \in {"delay", "unwr"} /\ InFile(b)

PgDirty(p) == \E b \in BlksOf(p) : wbuf[b].dirty

\* What a read of the cell returns when the page is not cached.
OnMedium(map, c) ==
    LET b == BlkOf(c)
    IN  IF map[b].st = "written" THEN wdisk[b][map[b].at][c % BlkCells] ELSE 0

Seen(c) == IF wbuf[BlkOf(c)].up THEN wcell[c] ELSE OnMedium(wmap, c)

WrInit ==
    /\ wsize = 0 /\ wdsize = 0
    /\ wmap = [b \in WrBlks |-> Hole]
    /\ wdel = {}
    /\ wdisk = [b \in WrBlks |-> [g \in {0, 1} |-> [k \in 0 .. BlkCells - 1 |-> Stale]]]
    /\ wbuf = [b \in WrBlks |-> NoBuf]
    /\ wcell = [c \in WrCells |-> Stale]
    /\ wback = {} /\ wpass = IdlePass /\ wio = {}
    /\ wcom = [map |-> wmap, dsize |-> 0]
    /\ wref = [c \in WrCells |-> 0]
    /\ wsync = [c \in WrCells |-> Stale]
    /\ werr = FALSE /\ wlost = {} /\ wbare = {} /\ wgaveup = FALSE
    /\ wops = 0 /\ wfaults = 0

(***************************************************************************)
(* Allocation: the physical block of b that no committed extent uses; its  *)
(* old contents are whatever was there.                                    *)
(***************************************************************************)
Fresh_at(b) == IF wcom.map[b].st # "hole" /\ wcom.map[b].at = 0 THEN 1 ELSE 0

AllocMap(B) ==
    [b \in WrBlks |-> IF b \in B /\ wmap[b].st = "hole"
                      THEN [st |-> "unwr", at |-> Fresh_at(b)] ELSE wmap[b]]

AllocDisk(B) ==
    [b \in WrBlks |-> IF b \in B /\ wmap[b].st = "hole"
                      THEN [wdisk[b] EXCEPT ![Fresh_at(b)] =
                               [k \in 0 .. BlkCells - 1 |-> Stale]]
                      ELSE wdisk[b]]

(***************************************************************************)
(* write_begin: each buffer of the range gets a block, delayed or (when    *)
(* space is short) allocated unwritten; the rest of a new block is zeroed, *)
(* the rest of an old one read in.                                         *)
(***************************************************************************)
nonda_switch == {TRUE, FALSE}

get_block(b, nonda) ==
    IF wbuf[b].st # "none" THEN wbuf[b].st
    ELSE IF wmap[b].st = "written" THEN "map"
    ELSE IF wmap[b].st = "unwr" \/ nonda THEN "unwr"
    ELSE "delay"

block_write_begin_no_zero(c, nonda) ==
    LET b == BlkOf(c)
    IN  IF wbuf[b].up THEN wcell[c]
        ELSE IF get_block(b, nonda) = "map" THEN OnMedium(wmap, c) ELSE Stale

block_write_begin(c, nonda) ==
    LET b == BlkOf(c)
    IN  IF wbuf[b].up THEN wcell[c]
        ELSE IF get_block(b, nonda) = "map" THEN OnMedium(wmap, c) ELSE 0

\* The write's last block already has an initialised block.
should_update_i_disksize(end, nonda) == get_block(BlkOf(end - 1), nonda) = "map"

\* The blocks of the range: without delayed allocation they are allocated
\* under a handle, otherwise only recorded as delayed.
write_begin(B, nonda) ==
    LET New == {b \in B : wbuf[b].st = "none"}
    IN  IF nonda THEN [map |-> AllocMap(New), del |-> wdel \ New]
        ELSE [map |-> wmap, del |-> wdel \cup {b \in B : get_block(b, nonda) = "delay"}]

\* Allocated past the end, and nothing copied there.
write_failed(end, nonda, copied) == nonda /\ ~copied /\ end > wsize

write_end(end, nonda, copied) ==
    LET grows == copied /\ end > wsize
    IN  /\ wsize' = IF grows THEN end ELSE wsize
        /\ wdsize' = IF grows /\ (nonda \/ should_update_i_disksize(end, nonda))
                     THEN Max({end, wdsize}) ELSE wdsize

(***************************************************************************)
(* truncate_pagecache and ext4_truncate at n: blocks past n lose their     *)
(* buffers, extents and delayed status; the tail of the block n falls into *)
(* is zeroed in the cache and written back later.                          *)
(***************************************************************************)
Past(b, n) == b * BlkCells >= n

CutMap(map, n) == [b \in WrBlks |-> IF Past(b, n) THEN Hole ELSE map[b]]

TailBlk(b, n) == b = n \div BlkCells /\ n % BlkCells # 0

CutBuf(buf, n) ==
    [b \in WrBlks |->
       IF Past(b, n) THEN NoBuf
       ELSE IF TailBlk(b, n) /\ (buf[b].st # "none" \/ wmap[b].st # "hole")
            THEN [st |-> IF buf[b].st # "none" THEN buf[b].st
                         ELSE IF wmap[b].st = "unwr" THEN "unwr" ELSE "map",
                  up |-> TRUE, dirty |-> TRUE]
       ELSE buf[b]]

CutCell(cell, buf, n) ==
    [c \in WrCells |->
       IF Past(BlkOf(c), n) THEN Stale
       ELSE IF c >= n /\ (buf[BlkOf(c)].up \/ wmap[BlkOf(c)].st # "hole") THEN 0
       ELSE IF TailBlk(BlkOf(c), n) /\ ~buf[BlkOf(c)].up /\ wmap[BlkOf(c)].st # "hole"
            THEN OnMedium(wmap, c)
       ELSE cell[c]]

\* truncate waits for the writeback of the pages it cuts.
CutWaits(n) == \A p \in wback : \A c \in CellsOf(p) : c < n

\* A write within one page under the inode lock and the folio lock:
\* write_begin, the copy (which may copy nothing), write_end.  A write that
\* allocated blocks past the end and copied nothing truncates them again.
buffered_write(pos, len, nonda, copied) ==
    LET end == pos + len
        B == BlkOf(pos) .. BlkOf(end - 1)
        New == {b \in B : wbuf[b].st = "none"}
        W == IF copied THEN pos .. end - 1 ELSE {}
        begun == write_begin(B, nonda)
        buf1 == [b \in WrBlks |->
                   IF b \in B
                   THEN [st |-> get_block(b, nonda), up |-> TRUE,
                         dirty |-> \/ copied
                                   \/ wbuf[b].dirty
                                   \/ b \in New /\ get_block(b, nonda) # "map"]
                   ELSE wbuf[b]]
        cell1 == [c \in WrCells |->
                    IF c \in W THEN wops + 1
                    ELSE IF BlkOf(c) \in B THEN block_write_begin(c, nonda)
                    ELSE wcell[c]]
        cut == write_failed(end, nonda, copied)
    IN  /\ wops < WrOps /\ wops' = wops + 1
        /\ cut => CutWaits(wsize)
        /\ wmap' = IF cut THEN CutMap(begun.map, wsize) ELSE begun.map
        /\ wdel' = IF cut THEN {b \in begun.del : ~Past(b, wsize)} ELSE begun.del
        /\ wbuf' = IF cut THEN CutBuf(buf1, wsize) ELSE buf1
        /\ wcell' = IF cut THEN CutCell(cell1, buf1, wsize) ELSE cell1
        /\ wdisk' = IF nonda THEN AllocDisk(New) ELSE wdisk
        /\ write_end(end, nonda, copied)
        /\ wref' = [c \in WrCells |-> IF c \in W THEN wops + 1 ELSE wref[c]]
        /\ wsync' = [c \in WrCells |-> IF c \in W THEN Stale ELSE wsync[c]]
        /\ wlost' = IF cut THEN {b \in wlost : ~Past(b, wsize)} ELSE wlost
        /\ UNCHANGED <<wback, wpass, wio, wcom, werr, wbare, wgaveup, wfaults>>

\* ext4_setattr: i_disksize and i_size move together, then the cut.
setattr_size(n) ==
    /\ wops < WrOps /\ wops' = wops + 1
    /\ n # wsize /\ CutWaits(Min({n, wsize}))
    /\ wsize' = n /\ wdsize' = n
    /\ IF n < wsize
       THEN /\ wmap' = CutMap(wmap, n)
            /\ wdel' = {b \in wdel : ~Past(b, n)}
            /\ wbuf' = CutBuf(wbuf, n)
            /\ wcell' = CutCell(wcell, wbuf, n)
       ELSE UNCHANGED <<wmap, wdel, wbuf, wcell>>
    /\ wref' = [c \in WrCells |-> IF c < Min({n, wsize}) THEN wref[c] ELSE 0]
    /\ wsync' = [c \in WrCells |-> IF c < Min({n, wsize}) THEN wsync[c] ELSE Stale]
    /\ wlost' = {b \in wlost : ~Past(b, n)}
    /\ UNCHANGED <<wdisk, wback, wpass, wio, wcom, werr, wbare, wgaveup, wfaults>>

\* ext4_mpage_readpages: what is not up to date is read, holes and unwritten
\* blocks as zeroes.
read_folio(p) ==
    /\ \E b \in BlksOf(p) : ~wbuf[b].up
    /\ wcell' = [c \in WrCells |-> IF c \in CellsOf(p) THEN Seen(c) ELSE wcell[c]]
    /\ wbuf' = [b \in WrBlks |-> IF b \in BlksOf(p) THEN [wbuf[b] EXCEPT !.up = TRUE]
                                 ELSE wbuf[b]]
    /\ UNCHANGED <<wsize, wdsize, wmap, wdel, wdisk, wback, wpass, wio, wcom, wref,
                   wsync, werr, wrFate, wops, wfaults>>

\* The VM takes back a clean page that is not under writeback.
release_folio(p) ==
    /\ p \notin wback /\ ~PgDirty(p)
    /\ \E b \in BlksOf(p) : wbuf[b] # NoBuf
    /\ wbuf' = [b \in WrBlks |-> IF b \in BlksOf(p) THEN NoBuf ELSE wbuf[b]]
    /\ wcell' = [c \in WrCells |-> IF c \in CellsOf(p) THEN Stale ELSE wcell[c]]
    /\ UNCHANGED <<wsize, wdsize, wmap, wdel, wdisk, wback, wpass, wio, wcom, wref,
                   wsync, werr, wrFate, wops, wfaults>>

(***************************************************************************)
(* ext4_do_writepages.  A page that needs no block is submitted as it is.  *)
(* For pages that do, an extent of contiguous buffers is mapped and the    *)
(* pages it covers are submitted under one handle; i_disksize follows      *)
(* before the handle stops, and last the submitter drops its reference to  *)
(* the io_end.                                                             *)
(***************************************************************************)
CanWrite(p) == PgDirty(p) /\ p \notin wback

\* ext4_bio_write_folio: the part past i_size is zeroed, the dirty bit goes.
WrittenCell(P) ==
    [c \in WrCells |-> IF PgOf(c) \in P /\ c >= wsize /\ wbuf[BlkOf(c)].up THEN 0
                       ELSE wcell[c]]

WrittenBuf(P) ==
    [b \in WrBlks |->
       IF b \div PageBlks \notin P THEN wbuf[b]
       ELSE [wbuf[b] EXCEPT !.dirty = FALSE, !.st = IF NeedsMap(b) THEN "map" ELSE @]]

SentBlks(P) == {b \in UNION {BlksOf(p) : p \in P} : wbuf[b].dirty /\ InFile(b)}

\* Every block of the extent mapped for this io_end is recorded in it.
io_end_vec(P) == {b \in SentBlks(P) : NeedsMap(b)}

writepages_mapped(p) ==
    /\ wpass.st = "idle" /\ CanWrite(p)
    /\ \A b \in BlksOf(p) : ~NeedsMap(b)
    /\ wbuf' = WrittenBuf({p}) /\ wcell' = WrittenCell({p})
    /\ IF SentBlks({p}) = {} THEN UNCHANGED <<wback, wio>>
       ELSE /\ wback' = wback \cup {p}
            /\ wio' = wio \cup {[blks |-> SentBlks({p}), vec |-> {}, held |-> FALSE,
                                 st |-> "sent"]}
    /\ UNCHANGED <<wsize, wdsize, wmap, wdel, wdisk, wpass, wcom, wref, wsync, werr,
                   wrFate, wops, wfaults>>

\* The extent goes on from page to page only through the pages' edges.
OneExtent(p, q) ==
    /\ \A r \in p .. q : CanWrite(r) /\ \E b \in BlksOf(r) : NeedsMap(b)
    /\ \A r \in p .. q - 1 : /\ NeedsMap((r + 1) * PageBlks - 1)
                             /\ NeedsMap((r + 1) * PageBlks)

map_and_submit(p, q) ==
    LET B == {b \in UNION {BlksOf(r) : r \in p .. q} : NeedsMap(b)}
    IN  /\ wpass.st = "idle" /\ OneExtent(p, q)
        /\ wmap' = AllocMap(B) /\ wdisk' = AllocDisk(B) /\ wdel' = wdel \ B
        /\ wbuf' = WrittenBuf(p .. q) /\ wcell' = WrittenCell(p .. q)
        /\ wback' = wback \cup (p .. q)
        /\ wio' = wio \cup {[blks |-> SentBlks(p .. q), vec |-> io_end_vec(p .. q),
                             held |-> TRUE, st |-> "sent"]}
        /\ wpass' = [st |-> "mapped", first |-> q + 1]
        /\ UNCHANGED <<wsize, wdsize, wcom, wref, wsync, werr, wrFate, wops, wfaults>>

\* mpage_map_and_submit_extent, out of the loop: i_disksize moves to the end
\* of the pages submitted, but not past i_size.
update_disksize(first) == Max({wdsize, Min({first * PageCells, wsize})})

submit_done ==
    /\ wpass.st = "mapped"
    /\ wdsize' = update_disksize(wpass.first)
    /\ wpass' = [wpass EXCEPT !.st = "put"]
    /\ UNCHANGED <<wsize, wmap, wdel, wdisk, wbuf, wcell, wback, wio, wcom, wref,
                   wsync, werr, wrFate, wops, wfaults>>

(***************************************************************************)
(* The end of the I/O.                                                     *)
(***************************************************************************)
Converted(io) ==
    [b \in WrBlks |-> IF b \in io.vec /\ wmap[b].st = "unwr"
                      THEN [wmap[b] EXCEPT !.st = "written"] ELSE wmap[b]]

PagesOf(io) == {b \div PageBlks : b \in io.blks}

Held(io) == [io EXCEPT !.held = FALSE]

\* ext4_end_bio: the data has reached the medium, or has not.  Pages whose
\* extents need no conversion end their writeback here; the rest wait for
\* the worker, or for the submitter if it still holds the io_end.
end_bio(io, ok) ==
    /\ io.st = "sent"
    /\ ~ok => wfaults < WrFaults
    /\ wfaults' = IF ok THEN wfaults ELSE wfaults + 1
    /\ werr' = (werr \/ ~ok)
    /\ wdisk' = IF ~ok THEN wdisk
                ELSE [b \in WrBlks |->
                        IF b \in io.blks
                        THEN [wdisk[b] EXCEPT ![wmap[b].at] =
                                [k \in 0 .. BlkCells - 1 |-> wcell[CellAt(b, k)]]]
                        ELSE wdisk[b]]
    /\ IF io.vec = {}
       THEN wio' = wio \ {io} /\ wback' = wback \ PagesOf(io)
       ELSE /\ wio' = (wio \ {io}) \cup {[io EXCEPT !.st = IF ok THEN "done" ELSE "failed"]}
            /\ wback' = wback
    /\ wlost' = IF ok THEN wlost ELSE wlost \cup io.blks
    /\ UNCHANGED <<wsize, wdsize, wmap, wdel, wbuf, wcell, wpass, wcom, wref, wsync,
                   wbare, wgaveup, wops>>

\* ext4_end_io_end: the worker converts the extents unless the I/O failed.
convert(io) == IF io.st = "failed" THEN wmap ELSE Converted(io)

end_io_end(io) ==
    /\ ~io.held /\ io.st \in {"done", "failed"}
    /\ wmap' = convert(io)
    /\ wio' = wio \ {io} /\ wback' = wback \ PagesOf(io)
    /\ UNCHANGED <<wsize, wdsize, wdel, wdisk, wbuf, wcell, wpass, wcom, wref, wsync,
                   werr, wrFate, wops, wfaults>>

\* ext4_put_io_end: the submitter drops its reference; when it is the last
\* one, it converts the extents itself, whether or not the I/O failed.
put_io_end(io) ==
    /\ wpass.st = "put" /\ io.held
    /\ wpass' = IdlePass
    /\ IF io.st = "sent"
       THEN /\ wio' = (wio \ {io}) \cup {Held(io)}
            /\ UNCHANGED <<wmap, wback, wrFate>>
       ELSE /\ wmap' = Converted(io)
            /\ wio' = wio \ {io} /\ wback' = wback \ PagesOf(io)
            /\ wbare' = IF io.st = "failed" THEN wbare \cup io.vec ELSE wbare
            /\ UNCHANGED <<wlost, wgaveup>>
    /\ UNCHANGED <<wsize, wdsize, wdel, wdisk, wbuf, wcell, wcom, wref, wsync, werr,
                   wops, wfaults>>

\* The blocks of page p below n that the loop of mpage_map_and_submit_extent
\* has mapped when it cannot map the next one.
MappedBelow(p, n) == {b \in BlksOf(p) : NeedsMap(b) /\ b < n}

\* Since no I/O holds the io_end that records them, dropping it converts them.
convert_mapped(B) ==
    /\ wmap' = [b \in WrBlks |-> IF b \in B THEN [AllocMap(B)[b] EXCEPT !.st = "written"]
                                  ELSE wmap[b]]
    /\ wdisk' = AllocDisk(B) /\ wbare' = wbare \cup B

MapStops(p, n) ==
    /\ wpass.st = "idle" /\ CanWrite(p) /\ \E b \in BlksOf(p) : NeedsMap(b) /\ b >= n
    /\ wfaults < WrFaults /\ wfaults' = wfaults + 1

\* mpage_release_unused_pages: blocks cannot be allocated for a reason that
\* will not go away; the page is thrown away ("Data will be lost") and the
\* delayed status of its first block with it.  No error is recorded for
\* fsync.
release_unused(p, n) ==
    LET B == MappedBelow(p, n)
    IN  /\ MapStops(p, n)
        /\ convert_mapped(B)
        /\ wbuf' = [b \in WrBlks |-> IF b \in BlksOf(p) THEN NoBuf ELSE wbuf[b]]
        /\ wcell' = [c \in WrCells |-> IF c \in CellsOf(p) THEN Stale ELSE wcell[c]]
        /\ wdel' = wdel \ (B \cup {p * PageBlks})
        /\ wlost' = wlost \cup {b \in BlksOf(p) : wbuf[b].dirty} /\ wgaveup' = TRUE
        /\ UNCHANGED <<wsize, wdsize, wback, wpass, wio, wcom, wref, wsync, werr, wops>>

\* The loop ends with -ENOSPC after it mapped some blocks: the page is left
\* dirty, its first buffers mapped.
map_partly(p, n) ==
    LET B == MappedBelow(p, n)
    IN  /\ MapStops(p, n) /\ B # {}
        /\ convert_mapped(B)
        /\ wdel' = wdel \ B
        /\ wbuf' = [b \in WrBlks |-> IF b \in B THEN [wbuf[b] EXCEPT !.st = "map"]
                                     ELSE wbuf[b]]
        /\ wdsize' = update_disksize(p)
        /\ UNCHANGED <<wsize, wcell, wback, wpass, wio, wcom, wref, wsync, werr, wlost,
                       wgaveup, wops>>

(***************************************************************************)
(* The journal commits when no handle is open.  fsync returns 0 when every *)
(* page has been written back without an error and the commit is done; an  *)
(* error that was recorded is returned once.                               *)
(***************************************************************************)
Durable == [map |-> wmap, dsize |-> wdsize]

wr_commit ==
    /\ wpass.st # "mapped" /\ wcom # Durable
    /\ wcom' = Durable
    /\ UNCHANGED <<wsize, wdsize, wmap, wdel, wdisk, wbuf, wcell, wback, wpass, wio,
                   wref, wsync, werr, wrFate, wops, wfaults>>

SyncWaited_not == TRUE

\* file_write_and_wait_range has waited for the pages under writeback.
SyncWaited == wback = {}

sync_file ==
    /\ wpass.st = "idle" /\ SyncWaited /\ ~werr
    /\ \A p \in WrPgs : ~PgDirty(p)
    /\ wcom' = Durable
    /\ wsync' = [c \in WrCells |-> IF c < wsize THEN wref[c] ELSE Stale]
    /\ wsync' # wsync
    /\ UNCHANGED <<wsize, wdsize, wmap, wdel, wdisk, wbuf, wcell, wback, wpass, wio,
                   wref, werr, wrFate, wops, wfaults>>

sync_error ==
    /\ wpass.st = "idle" /\ SyncWaited /\ werr
    /\ \A p \in WrPgs : ~PgDirty(p)
    /\ werr' = FALSE
    /\ UNCHANGED <<wsize, wdsize, wmap, wdel, wdisk, wbuf, wcell, wback, wpass, wio,
                   wcom, wref, wsync, wrFate, wops, wfaults>>

WrNext ==
    \/ \E w \in WrWrites, nonda \in nonda_switch, copied \in BOOLEAN :
          buffered_write(w[1], w[2], nonda, copied)
    \/ \E n \in WrSizes : setattr_size(n)
    \/ \E p \in WrPgs : \/ read_folio(p) \/ release_folio(p)
                        \/ writepages_mapped(p)
                        \/ \E n \in BlksOf(p) : release_unused(p, n) \/ map_partly(p, n)
    \/ \E p, q \in WrPgs : map_and_submit(p, q)
    \/ submit_done
    \/ \E io \in wio : end_bio(io, TRUE) \/ end_bio(io, FALSE)
    \/ \E io \in wio : end_io_end(io) \/ put_io_end(io)
    \/ wr_commit
    \/ sync_file \/ sync_error

WrSpec == WrInit /\ [][WrNext]_wrVars

(***************************************************************************)
(* Properties.                                                             *)
(***************************************************************************)

\* No crash makes old contents of the medium readable: a block whose extent
\* is committed as written, below the committed i_disksize, holds data of
\* this file.  The blocks that ext4_put_io_end or a failed allocation made
\* written extents without their data (wbare) are the exception.
NoStaleExposed ==
    \A c \in WrCells :
       c < wcom.dsize /\ BlkOf(c) \notin wbare => OnMedium(wcom.map, c) # Stale

\* A reader sees the last write of every byte, from the cache or, when the
\* VM has dropped the page, from the medium, whatever writeback has done in
\* between; except in blocks that an I/O failed to write or that were thrown
\* away.
LastWriteSeen ==
    \A c \in WrCells : c < wsize /\ BlkOf(c) \notin wlost => Seen(c) = wref[c]

\* i_disksize never passes i_size, and stays behind it only while the page
\* i_size ends in still has a block for writeback to allocate, or lost one,
\* or writeback is about to move it: writeback will push it up to i_size.
DisksizeFollows ==
    /\ wdsize <= wsize
    /\ wdsize < wsize =>
         \/ \E b \in BlksOf(PgOf(wsize - 1)) : NeedsMap(b) \/ b \in wlost
         \/ wpass.st = "mapped" /\ wpass.first * PageCells >= wsize

\* What fsync reported as stored survives a crash at any later time, until
\* it is overwritten or truncated: all but the blocks whose loss an earlier
\* fsync has reported or background writeback has kept to itself (wlost),
\* those that became written extents without their data (wbare), and the
\* file's length once a page was thrown away.
SyncedSurvives ==
    \A c \in WrCells : wsync[c] # Stale /\ BlkOf(c) \notin wlost \cup wbare =>
       /\ OnMedium(wcom.map, c) = wsync[c]
       /\ c < wcom.dsize \/ wgaveup

\* A read finds the last write, before and after a crash nothing older than
\* the file's own data, and i_disksize follows i_size.
ReadsRight == NoStaleExposed /\ LastWriteSeen /\ DisksizeFollows
=============================================================================
