------------------------------ MODULE CowCopy ------------------------------
(***************************************************************************)
(* Copy-on-write clones: children that are written while their parent is.  *)
(* A block of a child is with the parent until it is copied.  A child's    *)
(* writer copies the blocks it overwrites in part; the parent's writer     *)
(* saves the old contents of a block in a page copy before it overwrites   *)
(* it; the page copy thread later gives each page copy to the children it  *)
(* is for.  The active map (uncopied blocks being processed) locks single  *)
(* blocks of a child between them.                                         *)
(*                                                                         *)
(* Children are open and attached to their parent throughout, have no      *)
(* ranges, and blocks lie below the copy size.  The parent's pages are in  *)
(* the page cache, so that a page copy holds its data from the start.      *)
(***************************************************************************)
EXTENDS Integers, Sequences, FiniteSets, Functions

CONSTANTS
    Children,       \* the clones of one parent
    Writers,        \* threads that write children
    ChildOf,        \* the child each of them writes
    NumBlocks,      \* blocks of each file
    MaxParWrites,   \* bound: writes of the parent
    MaxSpoiled      \* bound: child blocks for which a copy or a write fails

ASSUME CowAssumption ==
    /\ ChildOf \in [Writers -> Children]
    /\ "par" \notin Writers
    /\ NumBlocks \in Nat \ {0}
    /\ MaxParWrites \in Nat
    /\ MaxSpoiled \in Nat

Blocks == 0..(NumBlocks - 1)

VARIABLES
    par,         \* contents of the parent's blocks
    child,       \* contents of the children's own blocks
    copied,      \* the copy bits of the friend files
    pending,     \* i_pending_copy_pages
    amap,        \* active map: the processing type of a child's block
    copies,      \* page_copy_llist
    writer,      \* where each child writer is
    parWriter,   \* where the parent's writer is
    thread,      \* where the page copy thread is
    parWrites,   \* counter for MaxParWrites
    last,        \* history: the writer that last wrote a child's block
    spoiled      \* history: child blocks for which a copy or a write failed

vars == <<par, child, copied, pending, amap, copies, writer, parWriter, thread,
          parWrites, last, spoiled>>

\* Contents: "orig" is the snapshot the children were promised, "par" what the
\* parent's writer writes, a writer what it writes.  A partial write changes the
\* head of a block only.
Whole(v) == [head |-> v, rest |-> v]

Idle == [at |-> "idle"]

\* History: the copies or writes of these blocks fail.
Spoil(bs) ==
    /\ spoiled' = spoiled \cup bs
    /\ Cardinality(spoiled') <= MaxSpoiled

Init ==
    /\ par = [b \in Blocks |-> "orig"]
    /\ child = [c \in Children |-> [b \in Blocks |-> Whole("hole")]]
    /\ copied = [c \in Children |-> {}]
    /\ pending = [c \in Children |-> NumBlocks]
    /\ amap = [c \in Children |-> [b \in Blocks |-> {}]]
    /\ copies = << >>
    /\ writer = [w \in Writers |-> Idle]
    /\ parWriter = Idle
    /\ thread = Idle
    /\ parWrites = 0
    /\ last = [c \in Children |-> [b \in Blocks |-> "nobody"]]
    /\ spoiled = {}

-----------------------------------------------------------------------------
(* The active map.  An entry that is NOP and has no waiters is freed, and  *)
(* one that is missing is created, so that {} stands for both.  A waiter   *)
(* looks again when it is woken or after ten seconds.                      *)

\* A mutant: the comment "copying is not compatible with copying" forgotten.
Compatible_copying(pt1, pt2) == pt1 \cap {"COPYING_EXCL"} = {}

\* scorw_is_compatible_processing_type, on sets of flags.
Compatible(pt1, pt2) ==
    \/ "READING" \in pt1 /\ "COPYING" \in pt2
    \/ "COPYING" \in pt1 /\ "READING" \in pt2
    \/ "READING" \in pt1 /\ "READING" \in pt2
    \/ pt1 = {}
    \/ pt2 = {}

GetBlock(c, b, type) ==
    /\ Compatible(amap[c][b], {type})
    /\ amap' = [amap EXCEPT ![c][b] = @ \cup {type}]

PutBlock(c, b, type) == amap' = [amap EXCEPT ![c][b] = @ \ {type}]

\* The page copy of block b that is for child c; there is at most one.
CopiesFor(c, b) == {p \in Range(copies) : p.blk = b /\ c \in p.targets}

-----------------------------------------------------------------------------
(* A write to a child: scorw_write_child_blocks_begin, the write itself    *)
(* under the child's inode lock, scorw_write_child_blocks_end.             *)

\* The blocks lo..hi; headFull and tailFull tell whether the first and the last
\* of them are overwritten whole.
StartWrite(w, lo, hi, headFull, tailFull) ==
    /\ writer[w] = Idle
    /\ lo <= hi
    /\ lo = hi => headFull = tailFull
    /\ writer' = [writer EXCEPT ![w] = [at |-> "get", lo |-> lo, hi |-> hi, cur |-> lo, from |-> {},
                                        full |-> {b \in lo..hi : /\ b = lo => headFull
                                                                 /\ b = hi => tailFull}]]
    /\ UNCHANGED <<par, child, copied, pending, amap, copies, parWriter, thread,
                   parWrites, last, spoiled>>

\* On to the next block, or to the next step of the write.
Advance(w, here, next) ==
    LET r == writer[w]
    IN  writer' = [writer EXCEPT ![w] =
                      IF r.cur < r.hi THEN [r EXCEPT !.at = here, !.cur = r.cur + 1, !.from = {}]
                      ELSE IF next = "done" THEN [at |-> "done"]
                      ELSE [r EXCEPT !.at = next, !.cur = r.lo, !.from = {}]]

AcquireBlock(w) ==
    /\ writer[w].at = "get"
    /\ GetBlock(ChildOf[w], writer[w].cur, "COPYING")
    /\ writer' = [writer EXCEPT ![w].at = "check"]
    /\ UNCHANGED <<par, child, copied, pending, copies, parWriter, thread, parWrites,
                   last, spoiled>>

\* A copied block is let go, one that will be overwritten whole is kept locked,
\* any other must be copied: from its page copy if there is one.
CheckBlock(w) ==
    LET c == ChildOf[w]
        b == writer[w].cur
    IN  /\ writer[w].at = "check"
        /\ \/ /\ b \in copied[c]
              /\ PutBlock(c, b, "COPYING")
              /\ Advance(w, "get", "write")
           \/ /\ b \notin copied[c]
              /\ b \in writer[w].full
              /\ Advance(w, "get", "write")
              /\ UNCHANGED amap
           \/ /\ b \notin copied[c]
              /\ b \notin writer[w].full
              /\ writer' = [writer EXCEPT ![w].at = "copy", ![w].from = CopiesFor(c, b)]
              /\ UNCHANGED amap
        /\ UNCHANGED <<par, child, copied, pending, copies, parWriter, thread,
                       parWrites, last, spoiled>>

\* The result of a copy is not looked at: if it fails the write goes on.
CopyBlock(w) ==
    LET c == ChildOf[w]
        b == writer[w].cur
    IN  /\ writer[w].at = "copy"
        /\ \/ /\ \/ /\ writer[w].from = {}
                    /\ child' = [child EXCEPT ![c][b] = Whole(par[b])]
                 \/ \E p \in writer[w].from :
                       child' = [child EXCEPT ![c][b] = Whole(p.data)]
              /\ UNCHANGED spoiled
           \/ /\ Spoil({<<c, b>>})
              /\ UNCHANGED child
        /\ Advance(w, "get", "write")
        /\ UNCHANGED <<par, copied, pending, amap, copies, parWriter, thread,
                       parWrites, last>>

\* The write stops at block n if a page cannot be written.
WriteData(w) ==
    LET c == ChildOf[w]
        new(b) == IF b \in writer[w].full THEN Whole(w) ELSE [child[c][b] EXCEPT !.head = w]
    IN  /\ writer[w].at = "write"
        /\ \E n \in writer[w].lo..(writer[w].hi + 1) :
              LET done == writer[w].lo..(n - 1)
              IN  /\ child' = [child EXCEPT ![c] =
                                  [b \in Blocks |-> IF b \in done THEN new(b) ELSE @[b]]]
                  /\ last' = [last EXCEPT ![c] =
                                  [b \in Blocks |-> IF b \in done THEN w ELSE @[b]]]
                  /\ Spoil({<<c, b>> : b \in (writer[w].full \ done) \ copied[c]})
        /\ writer' = [writer EXCEPT ![w].at = "end"]
        /\ UNCHANGED <<par, copied, pending, amap, copies, parWriter, thread, parWrites>>

\* A mutant: the block is let go before its copy bit is set.
EndBlock_early(w) ==
    LET c == ChildOf[w]
        b == writer[w].cur
    IN  \/ /\ writer[w].at = "end"
           /\ writer' = [writer EXCEPT ![w].at = "mark"]
           /\ IF b \in copied[c] THEN UNCHANGED amap ELSE PutBlock(c, b, "COPYING")
           /\ UNCHANGED <<par, child, copied, pending, copies, parWriter, thread,
                          parWrites, last, spoiled>>
        \/ /\ writer[w].at = "mark"
           /\ Advance(w, "end", "done")
           /\ copied' = [copied EXCEPT ![c] = @ \cup {b}]
           /\ pending' = [pending EXCEPT ![c] = IF b \in copied[c] THEN @ ELSE @ - 1]
           /\ UNCHANGED <<par, child, amap, copies, parWriter, thread, parWrites, last,
                          spoiled>>

\* A mutant: a block that was copied already is counted off again.
EndBlock_twice(w) ==
    LET c == ChildOf[w]
        b == writer[w].cur
    IN  /\ writer[w].at = "end"
        /\ copied' = [copied EXCEPT ![c] = @ \cup {b}]
        /\ pending' = [pending EXCEPT ![c] = @ - 1]
        /\ PutBlock(c, b, "COPYING")
        /\ Advance(w, "end", "done")
        /\ UNCHANGED <<par, child, copies, parWriter, thread, parWrites, last, spoiled>>

\* A mutant: the block is not let go.
EndBlock_leak(w) ==
    LET c == ChildOf[w]
        b == writer[w].cur
    IN  /\ writer[w].at = "end"
        /\ copied' = [copied EXCEPT ![c] = @ \cup {b}]
        /\ pending' = [pending EXCEPT ![c] = IF b \in copied[c] THEN @ ELSE @ - 1]
        /\ Advance(w, "end", "done")
        /\ UNCHANGED <<par, child, amap, copies, parWriter, thread, parWrites, last, spoiled>>

\* The copy bit is set whatever became of the copy and of the write.
EndBlock(w) ==
    LET c == ChildOf[w]
        b == writer[w].cur
    IN  /\ writer[w].at = "end"
        /\ \/ /\ b \in copied[c]
              /\ UNCHANGED <<copied, pending, amap>>
           \/ /\ b \notin copied[c]
              /\ copied' = [copied EXCEPT ![c] = @ \cup {b}]
              /\ pending' = [pending EXCEPT ![c] = @ - 1]
              /\ PutBlock(c, b, "COPYING")
        /\ Advance(w, "end", "done")
        /\ UNCHANGED <<par, child, copies, parWriter, thread, parWrites, last, spoiled>>

-----------------------------------------------------------------------------
(* A write to one block of the parent, under the parent's inode lock.      *)

\* scorw_generic_perform_write computes the block for the barrier from the
\* offset inside the page, so it is always the first block of the file.
BarrierBlock(b) == 0

\* A mutant: no child is waited for.
BarrierChildren_none == {}

\* The children the barrier is set for: those that are open.
BarrierChildren == Children

StartParWrite(b) ==
    /\ parWriter = Idle
    /\ parWrites < MaxParWrites
    /\ parWrites' = parWrites + 1
    /\ parWriter' = [at |-> "barrier", blk |-> b, todo |-> BarrierChildren]
    /\ UNCHANGED <<par, child, copied, pending, amap, copies, writer, thread, last, spoiled>>

ReadBarrierBegin(c) ==
    /\ parWriter.at = "barrier"
    /\ c \in parWriter.todo
    /\ GetBlock(c, BarrierBlock(parWriter.blk), "COPYING_EXCL")
    /\ parWriter' = [parWriter EXCEPT !.todo = @ \ {c}]
    /\ UNCHANGED <<par, child, copied, pending, copies, writer, thread, parWrites, last,
                   spoiled>>

\* If the page cannot be had the write ends, and the barrier stays: the next
\* write to the parent would wait for it for ever.
ParWriteFails ==
    /\ parWriter.at = "barrier"
    /\ parWriter.todo = {}
    /\ parWriter' = [at |-> "failed"]
    /\ UNCHANGED <<par, child, copied, pending, amap, copies, writer, thread, parWrites,
                   last, spoiled>>

\* Children that have neither the block nor a page copy of it.
TargetChildren(b) == {c \in Children : b \notin copied[c] /\ CopiesFor(c, b) = {}}

\* scorw_write_par_blocks saves the old contents for them.
WriteParBlocks ==
    LET b == parWriter.blk
    IN  /\ parWriter.at = "barrier"
        /\ parWriter.todo = {}
        /\ copies' = IF TargetChildren(b) = {} THEN copies
                     ELSE Append(copies, [blk |-> b, targets |-> TargetChildren(b),
                                          data |-> par[b]])
        /\ parWriter' = [parWriter EXCEPT !.at = "write"]
        /\ UNCHANGED <<par, child, copied, pending, amap, writer, thread, parWrites, last,
                       spoiled>>

WriteParData ==
    /\ parWriter.at = "write"
    /\ par' = [par EXCEPT ![parWriter.blk] = "par"]
    /\ parWriter' = [parWriter EXCEPT !.at = "release", !.todo = BarrierChildren]
    /\ UNCHANGED <<child, copied, pending, amap, copies, writer, thread, parWrites, last,
                   spoiled>>

ReadBarrierEnd ==
    /\ parWriter.at = "release"
    /\ \/ \E c \in parWriter.todo :
             /\ PutBlock(c, BarrierBlock(parWriter.blk), "COPYING_EXCL")
             /\ parWriter' = [parWriter EXCEPT !.todo = @ \ {c}]
       \/ /\ parWriter.todo = {}
          /\ parWriter' = Idle
          /\ UNCHANGED amap
    /\ UNCHANGED <<par, child, copied, pending, copies, writer, thread, parWrites, last,
                   spoiled>>

-----------------------------------------------------------------------------
(* The page copy thread.                                                   *)
ThreadSelect ==
    /\ thread = Idle
    /\ copies # << >>
    /\ thread' = [at |-> "get", todo |-> Head(copies).targets]
    /\ UNCHANGED <<par, child, copied, pending, amap, copies, writer, parWriter, parWrites,
                   last, spoiled>>

ThreadGet(c) ==
    /\ thread.at = "get"
    /\ c \in thread.todo
    /\ GetBlock(c, Head(copies).blk, "COPYING_EXCL")
    /\ thread' = [at |-> "copy", todo |-> thread.todo \ {c}, child |-> c]
    /\ UNCHANGED <<par, child, copied, pending, copies, writer, parWriter, parWrites,
                   last, spoiled>>

\* A block that is not copied yet gets the saved contents; if that fails its copy
\* bit stays clear.
ThreadCopy ==
    LET c == thread.child
        b == Head(copies).blk
    IN  /\ thread.at = "copy"
        /\ \/ /\ b \in copied[c]
              /\ UNCHANGED <<child, copied, pending, spoiled>>
           \/ /\ b \notin copied[c]
              /\ child' = [child EXCEPT ![c][b] = Whole(Head(copies).data)]
              /\ copied' = [copied EXCEPT ![c] = @ \cup {b}]
              /\ pending' = [pending EXCEPT ![c] = @ - 1]
              /\ UNCHANGED spoiled
           \/ /\ b \notin copied[c]
              /\ Spoil({<<c, b>>})
              /\ UNCHANGED <<child, copied, pending>>
        /\ PutBlock(c, b, "COPYING_EXCL")
        /\ thread' = [at |-> "get", todo |-> thread.todo]
        /\ UNCHANGED <<par, copies, writer, parWriter, parWrites, last>>

\* When every child has been served the page copy is freed.
ThreadFree ==
    /\ thread.at = "get"
    /\ thread.todo = {}
    /\ copies' = Tail(copies)
    /\ thread' = Idle
    /\ UNCHANGED <<par, child, copied, pending, amap, writer, parWriter, parWrites, last,
                   spoiled>>

-----------------------------------------------------------------------------
WriterStep(w) ==
    \/ AcquireBlock(w)
    \/ CheckBlock(w)
    \/ CopyBlock(w)
    \/ WriteData(w)
    \/ EndBlock(w)

ParWriterStep ==
    \/ \E c \in Children : ReadBarrierBegin(c)
    \/ ParWriteFails
    \/ WriteParBlocks
    \/ WriteParData
    \/ ReadBarrierEnd

ThreadStep ==
    \/ ThreadSelect
    \/ \E c \in Children : ThreadGet(c)
    \/ ThreadCopy
    \/ ThreadFree

Next ==
    \/ \E w \in Writers, lo, hi \in Blocks, headFull, tailFull \in BOOLEAN :
          StartWrite(w, lo, hi, headFull, tailFull)
    \/ \E w \in Writers : WriterStep(w)
    \/ \E b \in Blocks : StartParWrite(b)
    \/ ParWriterStep
    \/ ThreadStep

\* A call that started goes on, and the page copy thread wakes up every five
\* seconds.  Each waits for a lock at most ten seconds before it looks again.
Fairness ==
    /\ \A w \in Writers : WF_vars(WriterStep(w))
    /\ WF_vars(ParWriterStep)
    /\ WF_vars(ThreadStep)

Spec == Init /\ [][Next]_vars /\ Fairness

-----------------------------------------------------------------------------
(* Properties.                                                             *)

\* What is kept for child c of block b: its own copy; else the page copy that a
\* writer of the child or the page copy thread will give it; else the parent's
\* block, which the next copy takes.
KeptFor(c, b) ==
    IF b \in copied[c] THEN child[c][b]
    ELSE IF CopiesFor(c, b) # {} THEN Whole((CHOOSE p \in CopiesFor(c, b) : TRUE).data)
    ELSE Whole(par[b])

\* The variables have their types; the counts never go below zero.
CowTypeOK ==
    /\ par \in [Blocks -> {"orig", "par"}]
    /\ copied \in [Children -> SUBSET Blocks]
    /\ pending \in [Children -> 0..NumBlocks]
    /\ amap \in [Children -> [Blocks -> SUBSET {"COPYING", "COPYING_EXCL"}]]
    /\ \A p \in Range(copies) : p.blk \in Blocks /\ p.targets \subseteq Children
    /\ spoiled \subseteq Children \X Blocks

FromSnapshot(c, b) == "par" \notin {KeptFor(c, b).head, KeptFor(c, b).rest}

\* What the parent's writer writes never gets into what is kept for a child, for
\* the block the barrier is set on: a child's writer that looks for a page copy
\* before it is made has its copy of the old block before the parent is
\* overwritten (scorw_read_barrier_begin).
SnapshotKept ==
    \A c \in Children, b \in {BarrierBlock(k) : k \in Blocks} :
        <<c, b>> \notin spoiled => FromSnapshot(c, b)

\* The same for every block: the barrier is to keep the modified data of the
\* parent from whoever looked for a page copy too early.
SnapshotKeptEverywhere ==
    \A c \in Children, b \in Blocks : <<c, b>> \notin spoiled => FromSnapshot(c, b)

\* What a child's writer wrote stays: neither a page copy nor another writer's
\* copy of the old block replaces it.
ChildWriteKept ==
    \A c \in Children : \A b \in copied[c] :
        last[c][b] # "nobody" /\ <<c, b>> \notin spoiled => child[c][b].head = last[c][b]

\* scorw_get_uncopied_block lets one copier at a time have a block; so no page
\* copy is freed under a writer that found it.
FoundCopyAlive ==
    \A w \in Writers :
        writer[w].at = "copy" /\ <<ChildOf[w], writer[w].cur>> \notin spoiled =>
            writer[w].from \subseteq Range(copies)

\* i_pending_copy_pages is the number of blocks still to copy: each block is
\* counted off once, whoever copies it.
PendingExact ==
    \A c \in Children : pending[c] = NumBlocks - Cardinality(copied[c])

\* Every write to a child returns, unless a failed write to the parent left its
\* barrier behind.
ChildWritesReturn ==
    \A w \in Writers :
        writer[w].at = "get" ~> (writer[w].at = "done" \/ parWriter.at = "failed")
=============================================================================
