----------------------------- MODULE ScorwInode -----------------------------
(***************************************************************************)
(* The life of scorw inodes: the in-memory part that a parent and its      *)
(* children have while one of them is open.  Opening a parent or a child   *)
(* gets the parent's scorw inode, whose creation gets those of all its     *)
(* children; the last put of the parent puts them again.  A pending page   *)
(* copy keeps the parent's scorw inode alive after the last close.         *)
(*                                                                         *)
(* Clones are made by setting an extended attribute on a file that the     *)
(* setxattr utility has opened together with the parent, and go when they  *)
(* are unlinked.  The locks are those of the code: open_close_lock and     *)
(* i_vfs_inode_lock of each inode, frnd_version_cnt_lock, and the parent's *)
(* writeback_sync_lock.                                                    *)
(***************************************************************************)
EXTENDS Integers, Sequences, FiniteSetsExt

CONSTANTS
    Procs, CopyThread,      \* processes, and the page copy thread
    P, Children,            \* the parent and the files that may be its clones
    SCORW_MAX_CHILDS,       \* slots for children
    NoInode,
    MaxCopies,              \* bound on page copies ever queued
    StopAtStray             \* bound: may no call begin once one has strayed?

Slots == 1..SCORW_MAX_CHILDS

\* struct scorw_inode, as far as its life is concerned.
ScorwRec ==
    [usage: Nat, unlinked: BOOLEAN, at: Nat, kids: [Slots -> Children \cup {NoInode}],
     last: Nat, added: Nat, removed: Nat]

ASSUME LifeAssumption ==
    /\ P \notin Children /\ CopyThread \notin Procs
    /\ NoInode \notin Children \cup Procs \cup {P, CopyThread} \cup ScorwRec
    /\ SCORW_MAX_CHILDS \in Nat \ {0}

VARIABLES
    attr,       \* the parent's attributes c_0, c_1, ...
    isChild,    \* files with the attribute SCORW_PARENT
    exists,     \* children that have not been unlinked
    si,         \* i_scorw_inode of each inode
    open,       \* files each process has open
    plain,      \* those opened before they had to do with clones
    opens,      \* i_vfs_inode_open_count
    copies,     \* page copies of the parent that the thread has still to serve
    lk,         \* who holds which lock
    loc,        \* where each thread is
    strayed     \* what has happened that the code does not cope with

lifeVars == <<attr, isChild, exists, si, open, plain, opens, copies, lk, loc>>
vars == <<lifeVars, strayed>>

Inodes == {P} \cup Children
All == Procs \cup {CopyThread}

OCL(f) == <<"open_close", f>>
VL(f) == <<"vfs_inode", f>>
FVL == <<"frnd_version_cnt", P>>
WB == <<"writeback_sync", P>>
Locks == {OCL(f) : f \in Inodes} \cup {VL(f) : f \in Inodes} \cup {FVL, WB}

NoKids == [i \in Slots |-> NoInode]
\* A fresh scorw inode, used once: alloc, prepare and the first usage count.
Fresh == [usage |-> 1, unlinked |-> FALSE, at |-> 0, kids |-> NoKids, last |-> 0,
          added |-> 0, removed |-> 0]
Idle == [pc |-> "idle", f |-> NoInode, i |-> 0, ret |-> "idle", kids |-> NoKids]

Init ==
    /\ attr = NoKids
    /\ isChild = {}
    /\ exists = Children
    /\ si = [f \in Inodes |-> NoInode]
    /\ open = [t \in Procs |-> {}]
    /\ plain = [t \in Procs |-> {}]
    /\ opens = [f \in Inodes |-> 0]
    /\ copies = 0
    /\ lk = [l \in Locks |-> NoInode]
    /\ loc = [t \in All |-> Idle]
    /\ strayed = {}

Free(l) == lk[l] = NoInode
At(t, p) == loc[t].pc = p
Go(t, place) == loc' = [loc EXCEPT ![t] = place]
Take(t, l) == Free(l) /\ lk' = [lk EXCEPT ![l] = t]
Drop(ls) == lk' = [l \in Locks |-> IF l \in ls THEN NoInode ELSE lk[l]]

-----------------------------------------------------------------------------
(* scorw_is_child_file and scorw_is_par_file: the scorw inode if there is  *)
(* one, else (if asked to) the extended attributes.                        *)
IsChildFile(f, consult) ==
    f # P /\ (si[f] # NoInode \/ (consult /\ f \in isChild))

IsParFile(f, consult) ==
    f = P /\ (si[P] # NoInode \/ (consult /\ \E i \in Slots : attr[i] # NoInode))

IsScorwFile(f, consult) == IsChildFile(f, consult) \/ IsParFile(f, consult)

\* What the code needs of its users: clones are made and unlinked while no
\* scorw inode is in use and nobody is opening one, what was opened to make
\* them is closed before clones are used, and a clone that could not be made
\* is not tried again before the parent has been opened (its slot of the
\* parent would be taken twice).  Nothing keeps them from calling otherwise;
\* that is noted.
Changing == \E t \in Procs : loc[t].ret = "change"
NoneInUse == \A f \in Inodes : si[f] = NoInode
MayUse == ~Changing /\ \A t \in Procs : plain[t] = {}
MayPrepare == \A t \in Procs : At(t, "idle")
MayChange == NoneInUse /\ MayPrepare
MayCreate(c) == MayChange /\ \A i \in Slots : attr[i] # c

Note(e, expected) == strayed' = IF expected THEN strayed ELSE strayed \cup {e}

(* ext4_file_open.  A file that is neither is opened as it is.             *)
OpenPlain(t, f) ==
    /\ At(t, "idle") /\ f \notin open[t] /\ f \in exists \cup {P}
    /\ ~IsScorwFile(f, TRUE) /\ Note("overlap", MayPrepare)
    /\ open' = [open EXCEPT ![t] = @ \cup {f}]
    /\ plain' = [plain EXCEPT ![t] = @ \cup {f}]
    /\ UNCHANGED <<attr, isChild, exists, si, opens, copies, lk, loc>>

OpenStart(t, f) ==
    /\ At(t, "idle") /\ f \notin open[t] /\ f \in exists \cup {P}
    /\ IsScorwFile(f, TRUE) /\ Note("overlap", MayUse)
    /\ Go(t, [loc[t] EXCEPT !.pc = "open", !.f = f])
    /\ UNCHANGED <<attr, isChild, exists, si, open, plain, opens, copies, lk>>

OpenLock(t) ==
    /\ At(t, "open")
    /\ Take(t, OCL(loc[t].f))
    /\ opens' = [opens EXCEPT ![loc[t].f] = @ + 1]
    /\ Go(t, [loc[t] EXCEPT !.pc = "get", !.ret = "opened"])
    /\ UNCHANGED <<attr, isChild, exists, si, open, plain, copies>>

OpenDone(t) ==
    /\ At(t, "opened")
    /\ Drop({OCL(loc[t].f)})
    /\ open' = [open EXCEPT ![t] = @ \cup {loc[t].f}]
    /\ Go(t, Idle)
    /\ UNCHANGED <<plain, attr, isChild, exists, si, opens, copies>>

-----------------------------------------------------------------------------
(* scorw_get_inode of the parent.                                          *)
GetExisting_no_count(t) ==
    /\ At(t, "get") /\ Free(VL(P)) /\ si[P] # NoInode
    /\ Go(t, [loc[t] EXCEPT !.pc = loc[t].ret])
    /\ UNCHANGED <<attr, isChild, exists, si, open, plain, opens, copies, lk>>
GetExisting(t) ==
    /\ At(t, "get") /\ Free(VL(P)) /\ si[P] # NoInode
    /\ si' = [si EXCEPT ![P].usage = @ + 1]
    /\ Go(t, [loc[t] EXCEPT !.pc = loc[t].ret])
    /\ UNCHANGED <<attr, isChild, exists, open, plain, opens, copies, lk>>

\* scorw_alloc_inode fails: the open goes on without a scorw inode.
GetFails(t) ==
    /\ At(t, "get") /\ Free(VL(P)) /\ si[P] = NoInode
    /\ Go(t, [loc[t] EXCEPT !.pc = loc[t].ret])
    /\ Note("nomem", FALSE)
    /\ UNCHANGED <<attr, isChild, exists, si, open, plain, opens, copies, lk>>

GetNew(t) ==
    /\ At(t, "get") /\ si[P] = NoInode
    /\ Take(t, VL(P))
    /\ si' = [si EXCEPT ![P] = Fresh]
    /\ Go(t, [loc[t] EXCEPT !.pc = "kids", !.i = 1])
    /\ UNCHANGED <<attr, isChild, exists, open, plain, opens, copies>>

AtSlot(t) == At(t, "kids") /\ loc[t].i \in Slots

GetNoKid(t) ==
    /\ AtSlot(t) /\ attr[loc[t].i] = NoInode
    /\ Go(t, [loc[t] EXCEPT !.i = loc[t].i + 1])
    /\ UNCHANGED <<attr, isChild, exists, si, open, plain, opens, copies, lk>>

\* The child is gone, or has never become one: its attribute is removed.
GetDangling(t) ==
    LET c == attr[loc[t].i] IN
    /\ AtSlot(t) /\ c # NoInode
    /\ c \notin exists \/ ~IsChildFile(c, TRUE)
    /\ attr' = [attr EXCEPT ![loc[t].i] = NoInode]
    /\ Go(t, [loc[t] EXCEPT !.i = loc[t].i + 1])
    /\ UNCHANGED <<isChild, exists, si, open, plain, opens, copies, lk>>

(* scorw_get_inode of a child: the count of an existing one goes up        *)
(* together with that of the parent, an unlinked one is left alone.        *)
KidAfterGet(s, c) ==
    IF s[c] = NoInode THEN [s EXCEPT ![c] = Fresh]
    ELSE IF s[c].unlinked THEN s
    ELSE IF s[P] = NoInode THEN [s EXCEPT ![c].usage = @ + 1]
    ELSE [s EXCEPT ![c].usage = @ + 1, ![P].usage = @ + 1]

Attach(s, c, i) ==
    [s EXCEPT ![P].kids[i] = c, ![c].at = i]

GetKid(t) ==
    LET i == loc[t].i
        c == attr[i]
        got == KidAfterGet(si, c)
    IN
    /\ AtSlot(t) /\ c # NoInode /\ c \in exists /\ IsChildFile(c, TRUE)
    /\ Free(VL(c))
    /\ si' = [(IF got[c].unlinked THEN got ELSE Attach(got, c, i)) EXCEPT ![P].last = i]
    /\ Go(t, [loc[t] EXCEPT !.i = i + 1])
    /\ UNCHANGED <<attr, isChild, exists, open, plain, opens, copies, lk>>

\* scorw_alloc_inode fails for the child: the parent goes on without it.
GetKidFails(t) ==
    LET c == attr[loc[t].i] IN
    /\ AtSlot(t) /\ c # NoInode /\ c \in exists /\ IsChildFile(c, TRUE)
    /\ Free(VL(c)) /\ si[c] = NoInode
    /\ si' = [si EXCEPT ![P].last = loc[t].i]
    /\ Go(t, [loc[t] EXCEPT !.i = loc[t].i + 1])
    /\ Note("nomem", FALSE)
    /\ UNCHANGED <<attr, isChild, exists, open, plain, opens, copies, lk>>

GetDone(t) ==
    /\ At(t, "kids") /\ loc[t].i \notin Slots
    /\ Drop({VL(P)})
    /\ Go(t, [loc[t] EXCEPT !.pc = loc[t].ret, !.i = 0])
    /\ UNCHANGED <<attr, isChild, exists, si, open, plain, opens, copies>>

-----------------------------------------------------------------------------
(* ext4_release_file.  Whether the file is a scorw file is asked of the    *)
(* scorw inode alone.                                                      *)
ClosePlain(t, f) ==
    /\ At(t, "idle") /\ f \in open[t] /\ ~IsScorwFile(f, FALSE)
    /\ open' = [open EXCEPT ![t] = @ \ {f}]
    /\ plain' = [plain EXCEPT ![t] = @ \ {f}]
    /\ UNCHANGED <<attr, isChild, exists, si, opens, copies, lk, loc>>

CloseStart(t, f) ==
    /\ At(t, "idle") /\ f \in open[t] /\ IsScorwFile(f, FALSE)
    /\ Go(t, [loc[t] EXCEPT !.pc = "close", !.f = f])
    /\ UNCHANGED <<attr, isChild, exists, si, open, plain, opens, copies, lk>>

CloseLock(t) ==
    /\ At(t, "close")
    /\ Take(t, OCL(loc[t].f))
    /\ opens' = [opens EXCEPT ![loc[t].f] = @ - 1]
    /\ Go(t, [loc[t] EXCEPT !.pc = "put", !.ret = "closed"])
    /\ UNCHANGED <<attr, isChild, exists, si, open, plain, copies>>

CloseDone(t) ==
    /\ At(t, "closed")
    /\ Drop({OCL(loc[t].f)})
    /\ open' = [open EXCEPT ![t] = @ \ {loc[t].f}]
    /\ plain' = [plain EXCEPT ![t] = @ \ {loc[t].f}]
    /\ Go(t, Idle)
    /\ UNCHANGED <<attr, isChild, exists, si, opens, copies>>

-----------------------------------------------------------------------------

(* scorw_put_inode of the parent, by a close, by the page copy thread or,  *)
(* nested, by the put of an unlinked child.                                *)
AfterPut(t) ==
    IF loc[t].ret = "served"
    THEN [si[P] EXCEPT !.removed = @ + 1]
    ELSE [si[P] EXCEPT !.usage = @ - 1]

\* BUG_ON(i_process_usage_count <= 0) stops the thread where it is.
MayPut(t) == loc[t].ret = "served" \/ si[P].usage > 0

Unused(s) == s.usage = 0 /\ s.added = s.removed

PutGone(t) ==
    /\ At(t, "put") /\ Free(VL(P)) /\ si[P] = NoInode
    /\ Go(t, [loc[t] EXCEPT !.pc = loc[t].ret])
    /\ UNCHANGED <<attr, isChild, exists, si, open, plain, opens, copies, lk>>

PutUsed(t) ==
    /\ At(t, "put") /\ Free(VL(P)) /\ si[P] # NoInode /\ MayPut(t)
    /\ ~Unused(AfterPut(t))
    /\ si' = [si EXCEPT ![P] = AfterPut(t)]
    /\ Go(t, [loc[t] EXCEPT !.pc = loc[t].ret])
    /\ UNCHANGED <<attr, isChild, exists, open, plain, opens, copies, lk>>

\* Detached from its inode first, then the children are put.
PutLast(t) ==
    /\ At(t, "put") /\ si[P] # NoInode /\ MayPut(t)
    /\ Unused(AfterPut(t))
    /\ Take(t, VL(P))
    /\ si' = [si EXCEPT ![P] = NoInode]
    /\ Go(t, [loc[t] EXCEPT !.pc = "putkids", !.i = 1, !.kids = si[P].kids])
    /\ UNCHANGED <<attr, isChild, exists, open, plain, opens, copies>>

PutNoKid(t) ==
    /\ At(t, "putkids") /\ loc[t].i \in Slots /\ loc[t].kids[loc[t].i] = NoInode
    /\ Go(t, [loc[t] EXCEPT !.i = loc[t].i + 1])
    /\ UNCHANGED <<attr, isChild, exists, si, open, plain, opens, copies, lk>>

PutKidLock(t) ==
    /\ At(t, "putkids") /\ loc[t].i \in Slots /\ loc[t].kids[loc[t].i] # NoInode
    /\ Take(t, FVL)
    /\ Go(t, [loc[t] EXCEPT !.pc = "putkid"])
    /\ UNCHANGED <<attr, isChild, exists, si, open, plain, opens, copies>>

\* The parent's scorw inode is gone by now, so the put is not passed on to it.
PutKid_forgets_one(t) ==
    LET c == loc[t].kids[loc[t].i] IN
    /\ At(t, "putkid") /\ Free(VL(c)) /\ (si[c] # NoInode => si[c].usage > 0)
    /\ si' = IF si[c] = NoInode \/ loc[t].i = SCORW_MAX_CHILDS THEN si
             ELSE IF si[c].usage = 1 THEN [si EXCEPT ![c] = NoInode]
             ELSE [si EXCEPT ![c].usage = @ - 1]
    /\ Drop({FVL})
    /\ Go(t, [loc[t] EXCEPT !.pc = "putkids", !.i = loc[t].i + 1])
    /\ UNCHANGED <<attr, isChild, exists, open, plain, opens, copies>>
PutKid(t) ==
    LET c == loc[t].kids[loc[t].i] IN
    /\ At(t, "putkid") /\ Free(VL(c)) /\ (si[c] # NoInode => si[c].usage > 0)
    /\ si' = IF si[c] = NoInode THEN si
             ELSE IF si[c].usage = 1 THEN [si EXCEPT ![c] = NoInode]
             ELSE [si EXCEPT ![c].usage = @ - 1]
    /\ Drop({FVL})
    /\ Go(t, [loc[t] EXCEPT !.pc = "putkids", !.i = loc[t].i + 1])
    /\ UNCHANGED <<attr, isChild, exists, open, plain, opens, copies>>

PutDone_keeps_lock(t) ==
    /\ At(t, "putkids") /\ loc[t].i \notin Slots
    /\ Go(t, [loc[t] EXCEPT !.pc = loc[t].ret, !.i = 0, !.kids = NoKids])
    /\ UNCHANGED <<attr, isChild, exists, si, open, plain, opens, copies, lk>>
PutDone(t) ==
    /\ At(t, "putkids") /\ loc[t].i \notin Slots
    /\ Drop({VL(P)})
    /\ Go(t, [loc[t] EXCEPT !.pc = loc[t].ret, !.i = 0, !.kids = NoKids])
    /\ UNCHANGED <<attr, isChild, exists, si, open, plain, opens, copies>>

-----------------------------------------------------------------------------
(* A write to the parent queues a page copy; the page copy thread serves   *)
(* it and puts the parent on its behalf.                                   *)
QueueCopy(t) ==
    /\ At(t, "idle") /\ P \in open[t] /\ si[P] # NoInode /\ si[P].added < MaxCopies
    /\ \E i \in Slots : si[P].kids[i] # NoInode
    /\ si' = [si EXCEPT ![P].added = @ + 1]
    /\ copies' = copies + 1
    /\ UNCHANGED <<attr, isChild, exists, open, plain, opens, lk, loc>>

ServeCopy ==
    /\ At(CopyThread, "idle") /\ copies > 0
    /\ copies' = copies - 1
    /\ Go(CopyThread, [loc[CopyThread] EXCEPT !.pc = "put", !.ret = "served"])
    /\ UNCHANGED <<attr, isChild, exists, si, open, plain, opens, lk>>

ServeDone ==
    /\ At(CopyThread, "served")
    /\ Go(CopyThread, Idle)
    /\ UNCHANGED <<attr, isChild, exists, si, open, plain, opens, copies, lk>>

-----------------------------------------------------------------------------
(* Making a clone: ext4_xattr_set of SCORW_PARENT, from a process that has *)
(* both files open.  The locks are taken in this order.                    *)
CreateStart(t, c) ==
    /\ At(t, "idle") /\ {c, P} \subseteq open[t] /\ c \in exists \ isChild
    /\ Note("clone", MayCreate(c))
    /\ Take(t, WB)
    /\ Go(t, [loc[t] EXCEPT !.pc = "create1", !.f = c, !.ret = "change"])
    /\ UNCHANGED <<attr, isChild, exists, si, open, plain, opens, copies>>

CreateLock(t) ==
    /\ \/ At(t, "create1") /\ Take(t, OCL(P)) /\ Go(t, [loc[t] EXCEPT !.pc = "create2"])
       \/ At(t, "create2") /\ Take(t, VL(P)) /\ Go(t, [loc[t] EXCEPT !.pc = "create3"])
    /\ UNCHANGED <<attr, isChild, exists, si, open, plain, opens, copies>>

CreateLocks == {WB, OCL(P), VL(P)}

\* The parent is empty or has all the children it can have.
CreateRefused(t, parentEmpty) ==
    /\ At(t, "create3")
    /\ parentEmpty \/ \A i \in Slots : attr[i] # NoInode
    /\ Drop(CreateLocks)
    /\ Go(t, Idle)
    /\ UNCHANGED <<attr, isChild, exists, si, open, plain, opens, copies>>

\* The first free slot of the parent is taken.
CreateAttrs(t) ==
    /\ At(t, "create3")
    /\ \E i \in Slots :
          /\ attr[i] = NoInode /\ \A j \in Slots : j < i => attr[j] # NoInode
          /\ attr' = [attr EXCEPT ![i] = loc[t].f]
          /\ Go(t, [loc[t] EXCEPT !.pc = "create4", !.i = i])
    /\ UNCHANGED <<isChild, exists, si, open, plain, opens, copies, lk>>

\* Setting SCORW_PARENT itself fails; what was set on the parent stays.
CreateFails(t) ==
    /\ At(t, "create4")
    /\ Drop(CreateLocks)
    /\ Go(t, Idle)
    /\ UNCHANGED <<attr, isChild, exists, si, open, plain, opens, copies>>

(* SCORW_PARENT is set, then special_open: nothing is to be done when the  *)
(* parent has no scorw inode and was opened as a plain file.               *)
CreateOnQuiet(t) ==
    /\ At(t, "create4") /\ si[P] = NoInode /\ opens[P] <= 1
    /\ isChild' = isChild \cup {loc[t].f}
    /\ Drop(CreateLocks)
    /\ Go(t, Idle)
    /\ UNCHANGED <<attr, exists, si, open, plain, opens, copies>>

\* special_open gets the child twice when the parent has a scorw inode: once
\* for the parent, once to "complement" the close of the child.
CreateOnOpen(t) ==
    LET c == loc[t].f
        got == Attach(KidAfterGet(si, c), c, loc[t].i)
    IN
    /\ At(t, "create4") /\ si[P] # NoInode /\ Free(VL(c))
    /\ isChild' = isChild \cup {c}
    /\ si' = [KidAfterGet(got, c) EXCEPT ![P].last = Max({@, loc[t].i})]
    /\ Drop(CreateLocks)
    /\ Go(t, Idle)
    /\ UNCHANGED <<attr, exists, open, plain, opens, copies>>

-----------------------------------------------------------------------------
(* scorw_unlink_child_file.  Unlinking an open child is disallowed.        *)
UnlinkStart(t, c) ==
    /\ At(t, "idle") /\ c \in exists \cap isChild /\ Note("unlink", MayChange)
    /\ \A u \in Procs : c \notin open[u]
    /\ Take(t, OCL(c))
    /\ Go(t, [loc[t] EXCEPT !.pc = "unlink", !.f = c, !.ret = "change"])
    /\ UNCHANGED <<attr, isChild, exists, si, open, plain, opens, copies>>

UnlinkLock(t) ==
    /\ At(t, "unlink")
    /\ Take(t, OCL(P))
    /\ Go(t, [loc[t] EXCEPT !.pc = "unlink2"])
    /\ UNCHANGED <<attr, isChild, exists, si, open, plain, opens, copies>>

WithoutAttr(c) == [i \in Slots |-> IF attr[i] = c THEN NoInode ELSE attr[i]]

UnlinkQuiet(t) ==
    /\ At(t, "unlink2") /\ si[loc[t].f] = NoInode
    /\ attr' = WithoutAttr(loc[t].f)
    /\ exists' = exists \ {loc[t].f}
    /\ Drop({OCL(loc[t].f), OCL(P)})
    /\ Go(t, Idle)
    /\ UNCHANGED <<isChild, si, open, plain, opens, copies>>

\* The child's scorw inode is there because of the parent: it is marked and
\* put on behalf of the parent.
UnlinkUsed(t) ==
    LET c == loc[t].f IN
    /\ At(t, "unlink2") /\ si[c] # NoInode
    /\ si' = [si EXCEPT ![c].unlinked = TRUE]
    /\ IF si[P] # NoInode
       THEN Drop({OCL(c)}) /\ Go(t, [loc[t] EXCEPT !.pc = "unlink3"]) /\ UNCHANGED exists
       ELSE Drop({OCL(c), OCL(P)}) /\ Go(t, Idle) /\ exists' = exists \ {c}
    /\ UNCHANGED <<attr, isChild, open, plain, opens, copies>>

(* scorw_put_inode of the unlinked child, which first puts the parent.     *)
UnlinkPut(t) ==
    LET c == loc[t].f IN
    /\ \/ /\ At(t, "unlink3") /\ Take(t, FVL) /\ Go(t, [loc[t] EXCEPT !.pc = "unlink4"])
          /\ UNCHANGED si
       \/ /\ At(t, "unlink4") /\ Take(t, VL(c)) /\ (si[c] # NoInode => si[c].usage > 0)
          /\ si' = IF si[c] = NoInode THEN si ELSE [si EXCEPT ![c].usage = @ - 1]
          /\ Go(t, IF si[c] # NoInode /\ si[P] # NoInode
                   THEN [loc[t] EXCEPT !.pc = "put", !.ret = "unlink5"]
                   ELSE [loc[t] EXCEPT !.pc = "unlink5"])
    /\ UNCHANGED <<attr, isChild, exists, open, plain, opens, copies>>

Detach(s, i) ==
    LET kids == [s[P].kids EXCEPT ![i] = NoInode]
        left == {j \in Slots : j < i /\ kids[j] # NoInode}
    IN [s EXCEPT ![P].kids = kids,
                 ![P].last = IF @ # i THEN @ ELSE IF left = {} THEN 0 ELSE Max(left)]

UnlinkFree(t) ==
    LET c == loc[t].f
        gone == si[c] # NoInode /\ si[c].usage = 0
    IN
    /\ At(t, "unlink5")
    /\ si' = IF ~gone THEN si
             ELSE [(IF si[P] = NoInode THEN si ELSE Detach(si, si[c].at)) EXCEPT ![c] = NoInode]
    /\ attr' = IF gone THEN WithoutAttr(c) ELSE attr
    /\ exists' = exists \ {c}
    /\ Drop({VL(c), FVL, OCL(P)})
    /\ Go(t, Idle)
    /\ UNCHANGED <<isChild, open, plain, opens, copies>>

-----------------------------------------------------------------------------
(* filemap_fdatawrite_wbc on the parent (fsync, background writeback).     *)
WritebackStart(t) ==
    /\ At(t, "idle") /\ IsParFile(P, TRUE)
    /\ Take(t, WB)
    /\ Go(t, [loc[t] EXCEPT !.pc = "writeback"])
    /\ UNCHANGED <<attr, isChild, exists, si, open, plain, opens, copies>>

WritebackDone(t) ==
    /\ At(t, "writeback")
    /\ Drop({WB})
    /\ Go(t, Idle)
    /\ UNCHANGED <<attr, isChild, exists, si, open, plain, opens, copies>>

\* No page is tagged dirty: the function returns before it unlocks.
WritebackClean(t) ==
    /\ At(t, "writeback")
    /\ Go(t, Idle)
    /\ Note("kept", FALSE)
    /\ UNCHANGED <<attr, isChild, exists, si, open, plain, opens, copies, lk>>

-----------------------------------------------------------------------------
Get(t) == GetExisting(t) \/ GetNew(t) \/ GetNoKid(t) \/ GetDangling(t)
          \/ GetKid(t) \/ GetDone(t)

Put(t) == PutGone(t) \/ PutUsed(t) \/ PutLast(t) \/ PutNoKid(t) \/ PutKidLock(t)
          \/ PutKid(t) \/ PutDone(t)

Step(t) ==
    \/ OpenLock(t) \/ OpenDone(t) \/ Get(t)
    \/ CloseLock(t) \/ CloseDone(t) \/ Put(t)
    \/ CreateLock(t) \/ (\E e \in BOOLEAN : CreateRefused(t, e))
    \/ CreateAttrs(t) \/ CreateFails(t) \/ CreateOnQuiet(t) \/ CreateOnOpen(t)
    \/ UnlinkLock(t) \/ UnlinkQuiet(t) \/ UnlinkUsed(t) \/ UnlinkPut(t) \/ UnlinkFree(t)
    \/ WritebackDone(t)

Fails(t) == GetFails(t) \/ GetKidFails(t) \/ WritebackClean(t)

Call(t) ==
    \/ \E f \in Inodes : OpenPlain(t, f) \/ OpenStart(t, f)
    \/ \E c \in Children : CreateStart(t, c) \/ UnlinkStart(t, c)

CallInside(t) ==
    \/ \E f \in Inodes : ClosePlain(t, f) \/ CloseStart(t, f)
    \/ QueueCopy(t) \/ WritebackStart(t)

CopyStep == ServeCopy \/ Put(CopyThread) \/ ServeDone

\* The two bounds of a model-checked instance: no call begins once one has
\* strayed, and nothing happens once one has met others' use of the family.
Overlaps == {"overlap", "clone", "unlink"}
MayBegin == StopAtStray => strayed = {}
MayGoOn == StopAtStray => strayed \cap Overlaps = {}

Next ==
    /\ MayGoOn
    /\ \/ \E t \in Procs : (MayBegin /\ Call(t)) \/ Fails(t)
       \/ \E t \in Procs : ((MayBegin /\ CallInside(t)) \/ Step(t)) /\ UNCHANGED strayed
       \/ CopyStep /\ UNCHANGED strayed

\* Mutexes are granted and threads run; nobody is obliged to call anything.
Fairness ==
    /\ \A t \in Procs : SF_vars((Step(t) /\ UNCHANGED strayed) \/ Fails(t))
    /\ SF_vars(CopyStep /\ UNCHANGED strayed)

Spec == Init /\ [][Next]_vars /\ Fairness

-----------------------------------------------------------------------------
Held(t) == {l \in Locks : lk[l] = t}
\* Files that a process has open as parent or child and is not closing.
InUse(t) == {f \in open[t] \ plain[t] : loc[t].f # f}
Settled == \A t \in All : At(t, "idle")

\* Whoever has a parent or a child open finds the parent's scorw inode, with
\* the scorw inode of every child attached to it at the child's slot; a child
\* is never read without its parent's log.  (No file is open, no copy is
\* queued on a scorw inode that has been freed.)  A failed allocation, or a
\* clone made or unlinked while others use the family, ends the promise.
NoneLost ==
    strayed = {} =>
        /\ (\E t \in Procs : InUse(t) # {}) \/ copies > 0 => si[P] # NoInode
        /\ \A t \in Procs : P \in InUse(t) /\ ~(\E u \in All : At(u, "kids")) =>
              \A i \in Slots : attr[i] # NoInode =>
                  /\ si[P].kids[i] = attr[i] /\ i <= si[P].last
                  /\ si[attr[i]] # NoInode /\ si[attr[i]].at = i

\* When all files are closed and all page copies served, no scorw inode is
\* left: every get has had its put, for the parent and for each child; and no
\* lock is held outside a call.  That is so until a call strays: a parent
\* without dirty pages is written back, an allocation fails, or a clone is
\* made or unlinked while others use the family.
NoneLeaks ==
    strayed = {} =>
        /\ Settled /\ copies = 0 /\ (\A t \in Procs : open[t] = {}) =>
              NoneInUse /\ \A f \in Inodes : opens[f] = 0
        /\ \A t \in All : At(t, "idle") => Held(t) = {}

\* Every open, close, clone and unlink comes to its end, those too in which
\* an allocation fails or writeback finds nothing to do, unless clones are
\* made or unlinked while others use the family.
CallsEnd ==
    \A t \in Procs : ~At(t, "idle") ~> At(t, "idle") \/ strayed \cap Overlaps # {}
=============================================================================
